---- MODULE Spec2Model ----
(***************************************************************************)
(* State-machine model of the ixflix-backend compensation and placement   *)
(* engine: binary placement (Genealogy), stakes and daily rewards (Stake), *)
(* the reward cap (RewardCap), Catalyst, Power Pass-Up, Synergy and the    *)
(* job_runs guard (JobRun).                                                *)
(*                                                                         *)
(* Conventions.                                                            *)
(*  - SQL NULL is 0 (NULL); user and stake ids start at 1 and are handed    *)
(*    out in insertion order, as AUTO_INCREMENT does.  The id of a reward   *)
(*    is a number fixed by its (stake_id, reward_date), which is unique in  *)
(*    stake_rewards.                                                        *)
(*  - Money is an integer number of 1e-5 USD (Usd(n) is n dollars).  The    *)
(*    JavaScript arithmetic is taken as exact arithmetic on these amounts,  *)
(*    a quotient being cut to the unit; the inputs of the scenarios are     *)
(*    chosen so that the quotients a property depends on are exact.  The    *)
(*    store keeps what the code writes.                                     *)
(*  - Calendar dates are day numbers; the store returns a date as the value *)
(*    that was written.                                                    *)
(*  - A query with .first() and no ORDER BY returns the row of lowest id.   *)
(***************************************************************************)
EXTENDS Integers, Sequences, FiniteSets, TLC

VARIABLES
    users,          \* set of user ids in table users
    is_verified,    \* users.is_verified, per user
    genealogy,      \* table genealogy: user_id -> [parent_id, sponsor_id, position]
    stakes,         \* table stakes, a sequence: the id of a stake is its index
    stake_rewards,  \* table stake_rewards: id -> row
    wallets,        \* wallets.balance of the main wallet, per user
    transactions,   \* table transactions (status completed): the sum of the amounts
                    \* per <<transaction_type, user_id, reference_id, date of created_at>>
    user_ranks,     \* user_ranks.override_percent, per user (0: no row or unranked)
    team_volumes,   \* table team_volumes, per user
    team_cycles,    \* table team_cycles, a sequence
    deposits,       \* the deposit rows of table transactions, a sequence: user,
                    \* amount, status and whether the metadata hold a payment_id
    job_runs,       \* table job_runs: <<job_name, run_date>> -> status
    today,          \* the current UTC calendar date
    pays,           \* the incentive rows the last operation inserted into transactions,
                    \* each with the cap info its clamp returned
    ret,            \* what the last operation returned
    pc,             \* per process of a concurrent scenario: where it stands
    local           \* per process: its local variables

placementVars == <<users, is_verified, genealogy>>

ledgerVars == <<stakes, stake_rewards, wallets, transactions, user_ranks,
                team_volumes, team_cycles, deposits>>

procVars == <<pc, local>>

vars == <<users, is_verified, genealogy, stakes, stake_rewards, wallets, transactions,
          user_ranks, team_volumes, team_cycles, deposits, job_runs, today, pays, ret,
          pc, local>>

NULL == 0

\* Largest user id the model hands out.
MaxUsers == 6

UserIds == 1..MaxUsers

Sides == {"left", "right"}

Min(a, b) == IF a <= b THEN a ELSE b

Max(a, b) == IF a >= b THEN a ELSE b

SetMin(S) == CHOOSE x \in S : \A y \in S : x <= y

\* Tables without rows.
NoLedger ==
    /\ stakes = <<>>
    /\ stake_rewards = <<>>
    /\ wallets = <<>>
    /\ transactions = <<>>
    /\ user_ranks = <<>>
    /\ team_volumes = <<>>
    /\ team_cycles = <<>>
    /\ deposits = <<>>

NoJobs ==
    /\ job_runs = {}
    /\ today = 0
    /\ pays = <<>>

\* No concurrent scenario in progress.
NoProcs ==
    /\ pc = <<>>
    /\ local = <<>>

(***************************************************************************)
(* Genealogy (binary placement)                                            *)
(***************************************************************************)

\* Rows of genealogy with the given parent_id and position.
SlotRows(g, parentId, position) ==
    {u \in DOMAIN g : g[u].parent_id = parentId /\ g[u].position = position}

\* Genealogy.isPositionAvailable
isPositionAvailable(g, parentId, position) ==
    SlotRows(g, parentId, position) = {}

\* The query "genealogy JOIN users WHERE parent_id, position, is_verified .first()":
\* the verified child in a slot, NULL when there is none.
VerifiedChild(g, ver, parentId, position) ==
    LET rows == {u \in SlotRows(g, parentId, position) : ver[u]}
    IN  IF rows = {} THEN NULL ELSE SetMin(rows)

\* Genealogy.getDownline(userId).length: the rows pushed by the queue walk, level
\* by level (children are joined with users without any flag filter).  The walk is
\* cut at MaxUsers levels, which a tree of MaxUsers nodes never reaches.
RECURSIVE DownlineCount(_, _, _)
DownlineCount(g, frontier, fuel) ==
    IF frontier = {} \/ fuel = 0 THEN 0
    ELSE LET children == {u \in DOMAIN g : g[u].parent_id \in frontier}
         IN  Cardinality(children) + DownlineCount(g, children, fuel - 1)

\* The while(true) loop of Genealogy.findAvailablePositionBreadthFirst.
RECURSIVE SpineWalk(_, _, _, _, _)
SpineWalk(g, ver, currentNodeId, side, fuel) ==
    IF isPositionAvailable(g, currentNodeId, side) \/ fuel = 0
    THEN [parentId |-> currentNodeId, position |-> side]
    ELSE LET child == VerifiedChild(g, ver, currentNodeId, side)
         IN  IF child = NULL
             THEN [parentId |-> currentNodeId, position |-> side]
             ELSE SpineWalk(g, ver, child, side, fuel - 1)

\* Genealogy.findAvailablePositionBreadthFirst(sponsorId, subtreePosition)
findAvailablePositionBreadthFirst(g, ver, sponsorId, side) ==
    LET subtreeRoot == VerifiedChild(g, ver, sponsorId, side)
    IN  IF subtreeRoot = NULL
        THEN [parentId |-> sponsorId, position |-> side]
        ELSE SpineWalk(g, ver, subtreeRoot, side, MaxUsers)

\* Genealogy.getNextAvailablePositionUnderSponsor(sponsorId)
getNextAvailablePositionUnderSponsor(g, ver, sponsorId) ==
    IF isPositionAvailable(g, sponsorId, "left")
    THEN [parentId |-> sponsorId, position |-> "left"]
    ELSE IF isPositionAvailable(g, sponsorId, "right")
    THEN [parentId |-> sponsorId, position |-> "right"]
    ELSE LET downlineCount == DownlineCount(g, {sponsorId}, MaxUsers) - 2
         IN  IF downlineCount % 2 = 0
             THEN findAvailablePositionBreadthFirst(g, ver, sponsorId, "left")
             ELSE findAvailablePositionBreadthFirst(g, ver, sponsorId, "right")

\* register: the sponsor named by the referral code, else the first verified user.
ResolveSponsor(us, ver, referrer) ==
    IF referrer # NULL THEN referrer
    ELSE IF {u \in us : ver[u]} = {} THEN NULL
    ELSE SetMin({u \in us : ver[u]})

\* register: the slot of the new participant.
RegisterSlot(g, ver, sponsorUser) ==
    IF sponsorUser = NULL
    THEN [parentId |-> NULL, position |-> "none"]
    ELSE getNextAvailablePositionUnderSponsor(g, ver, sponsorUser)

\* register(req): referrer is the user whose referral code the request carries
\* (NULL: no user has that code).
Register(referrer) ==
    LET userId == Cardinality(users) + 1
        sponsorUser == ResolveSponsor(users, is_verified, referrer)
        slot == RegisterSlot(genealogy, is_verified, sponsorUser)
        row == [parent_id |-> slot.parentId,
                sponsor_id |-> IF sponsorUser # NULL THEN sponsorUser ELSE userId,
                position |-> slot.position]
    IN  /\ userId <= MaxUsers
        /\ users' = users \cup {userId}
        /\ is_verified' = [u \in users \cup {userId} |->
                              IF u = userId THEN TRUE ELSE is_verified[u]]
        /\ genealogy' = [u \in users \cup {userId} |->
                              IF u = userId THEN row ELSE genealogy[u]]
        /\ ret' = [op |-> "register", userId |-> userId,
                   parentId |-> slot.parentId, position |-> slot.position]
        /\ UNCHANGED <<ledgerVars, job_runs, today, pays, procVars>>

\* users.is_verified is a stored flag (default false) that registration only ever
\* sets on the row it inserts; any later value is a write to the column.
SetVerified(u, flag) ==
    /\ u \in users
    /\ is_verified[u] # flag
    /\ is_verified' = [is_verified EXCEPT ![u] = flag]
    /\ UNCHANGED <<users, genealogy, ret>>
    /\ UNCHANGED <<ledgerVars, job_runs, today, pays, procVars>>

(***************************************************************************)
(* Money, energy packs and the reward cap                                  *)
(***************************************************************************)

\* n US dollars.
Usd(n) == n * 100000

\* floor(a * b / c) for naturals, without forming a * b.
MulDiv(a, b, c) == (a \div c) * b + ((a % c) * b) \div c

\* The state of the store as one record; operations take the store they read and
\* return the store they leave.
DB == [genealogy |-> genealogy, is_verified |-> is_verified, stakes |-> stakes,
       stake_rewards |-> stake_rewards, wallets |-> wallets,
       transactions |-> transactions, user_ranks |-> user_ranks,
       team_volumes |-> team_volumes, team_cycles |-> team_cycles,
       deposits |-> deposits]

\* The ledger tables become those of store d.
Commit(d) ==
    /\ stakes' = d.stakes
    /\ stake_rewards' = d.stake_rewards
    /\ wallets' = d.wallets
    /\ transactions' = d.transactions
    /\ user_ranks' = d.user_ranks
    /\ team_volumes' = d.team_volumes
    /\ team_cycles' = d.team_cycles
    /\ deposits' = d.deposits

\* Stake.ENERGY_PACKS; dailyRoiRate in units of 0.0001, maxShares 0 for null.
ENERGY_PACKS ==
    [spark   |-> [minShares |-> 1,    maxShares |-> 9,   dailyRoiRate |-> 30,
                  maxRewardLimit |-> 200],
     pulse   |-> [minShares |-> 10,   maxShares |-> 99,  dailyRoiRate |-> 50,
                  maxRewardLimit |-> 300],
     charge  |-> [minShares |-> 100,  maxShares |-> 999, dailyRoiRate |-> 70,
                  maxRewardLimit |-> 400],
     quantum |-> [minShares |-> 1000, maxShares |-> 0,   dailyRoiRate |-> 100,
                  maxRewardLimit |-> 500]]

\* Stake.getPackForShares
getPackForShares(shares) ==
    IF shares >= 1000 THEN "quantum"
    ELSE IF shares >= 100 THEN "charge"
    ELSE IF shares >= 10 THEN "pulse"
    ELSE IF shares >= 1 THEN "spark"
    ELSE "none"

\* Stake.validateStakeAmount(packType, amount).valid
validateStakeAmount(packType, amount) ==
    LET shares == amount \div Usd(25)
    IN  /\ packType \in DOMAIN ENERGY_PACKS
        /\ shares >= 1
        /\ shares >= ENERGY_PACKS[packType].minShares
        /\ ~(ENERGY_PACKS[packType].maxShares # 0
             /\ shares > ENERGY_PACKS[packType].maxShares)

\* Stake.getPackMaxLimit
getPackMaxLimit(packType) ==
    IF packType \in DOMAIN ENERGY_PACKS THEN ENERGY_PACKS[packType].maxRewardLimit ELSE 0

\* A priority map that ranks the tiers the other way round.
PackPriority_Reversed == [spark |-> 4, pulse |-> 3, charge |-> 2, quantum |-> 1]

\* priority map of Stake.getUserActivePackInfo
PackPriority == [spark |-> 1, pulse |-> 2, charge |-> 3, quantum |-> 4]

\* ids of the active stakes of a user
ActiveStakeIds(stk, userId) ==
    {i \in DOMAIN stk : stk[i].user_id = userId /\ stk[i].status = "active"}

RECURSIVE SumAmounts(_, _)
SumAmounts(stk, ids) ==
    IF ids = {} THEN 0
    ELSE LET i == SetMin(ids) IN stk[i].amount + SumAmounts(stk, ids \ {i})

\* Stake.getUserActivePackInfo(userId): always read through the pool connection,
\* so it sees the committed store c, never the writes of an open transaction.
getUserActivePackInfo(c, userId) ==
    LET ids == ActiveStakeIds(c.stakes, userId)
    IN  IF ids = {} THEN [highestPack |-> "none", totalAmount |-> 0]
        ELSE LET top == CHOOSE i \in ids : \A j \in ids :
                            PackPriority[c.stakes[i].pack_type]
                                >= PackPriority[c.stakes[j].pack_type]
             IN  [highestPack |-> c.stakes[top].pack_type,
                  totalAmount |-> SumAmounts(c.stakes, ids)]

\* RewardCap.INCENTIVE_TYPES
INCENTIVE_TYPES == {"catalyst_bonus", "synergy_flow", "power_passup"}

RECURSIVE SumTx(_, _)
\* SUM(amount) over the rows of transactions with the given keys
SumTx(txs, keys) ==
    IF keys = {} THEN 0
    ELSE LET k == CHOOSE x \in keys : TRUE
         IN  txs[k] + SumTx(txs, keys \ {k})

\* the sum query of RewardCap.getCapInfo
IncentiveUsed(txs, userId) ==
    SumTx(txs, {k \in DOMAIN txs : k[2] = userId /\ k[1] \in INCENTIVE_TYPES})

\* RewardCap.getCapInfo(userId, trx): the pack info comes from the committed store c,
\* the used total from the store d the caller's transaction sees.
getCapInfo(c, d, userId) ==
    LET info == getUserActivePackInfo(c, userId)
    IN  IF info.highestPack = "none" \/ info.totalAmount <= 0
        THEN [capAmount |-> 0, maxPercent |-> 0, available |-> 0, used |-> 0]
        ELSE LET maxPercent == getPackMaxLimit(info.highestPack)
                 capAmount == (info.totalAmount \div 100) * maxPercent
                 used == IncentiveUsed(d.transactions, userId)
             IN  [capAmount |-> capAmount, maxPercent |-> maxPercent,
                  available |-> Max(0, capAmount - used), used |-> used]

\* A clamp that lets every proposed amount through.
ClampAllowed_Unclamped(amount, info) == amount

\* The amount clampIncentive lets through, given the cap info.
ClampAllowed(amount, info) ==
    IF info.available <= 0 THEN 0 ELSE Max(0, Min(amount, info.available))

\* RewardCap.clampIncentive(userId, amount, trx)
clampIncentive(c, d, userId, amount) ==
    LET info == getCapInfo(c, d, userId)
    IN  [allowed |-> ClampAllowed(amount, info), info |-> info]

\* insert into transactions
InsertTx(txs, userId, type, ref, amount, date) ==
    LET key == <<type, userId, ref, date>>
    IN  [k \in DOMAIN txs \cup {key} |->
            (IF k \in DOMAIN txs THEN txs[k] ELSE 0) + (IF k = key THEN amount ELSE 0)]

\* The wallet increment of a distribution and the row it inserts into transactions.
CreditIncentive(d, userId, type, ref, amount, date) ==
    [d EXCEPT !.wallets[userId] = @ + amount,
              !.transactions = InsertTx(@, userId, type, ref, amount, date)]

\* The entry of the log for a row paid: the cap info its clamp returned, the
\* recipient's incentive total right after, and whether it holds an active stake.
PayEntry(c, d, userId, type, amount, info) ==
    [to |-> userId, type |-> type, amount |-> amount, info |-> info,
     usedAfter |-> IncentiveUsed(d.transactions, userId),
     staked |-> ActiveStakeIds(c.stakes, userId) # {}]

(***************************************************************************)
(* Catalyst bonus (stake controller)                                       *)
(***************************************************************************)

\* A rate table that pays levels 6 to 9 like level 5.
CATALYST_LEVEL_RATES_Flat == <<900, 300, 100, 50, 50, 50, 50, 50, 50>>

\* CATALYST_LEVEL_RATES, in units of 0.0001
CATALYST_LEVEL_RATES == <<900, 300, 100, 50, 50, 25, 25, 25, 25>>

\* genealogy.sponsor_id of a user, NULL without a row
SponsorOf(g, userId) == IF userId \in DOMAIN g THEN g[userId].sponsor_id ELSE NULL

\* distributeCatalystBonus: one staked sponsor, from the result cl of the clamp of
\* its raw reward: the credit, if anything is allowed.
CatalystPay(c, st, sponsorId, cl, ref, date) ==
    IF cl.allowed > 0
    THEN LET d2 == CreditIncentive(st.db, sponsorId, "catalyst_bonus", ref, cl.allowed,
                                   date)
         IN  [db |-> d2,
              pays |-> Append(st.pays, PayEntry(c, d2, sponsorId, "catalyst_bonus",
                                                cl.allowed, cl.info))]
    ELSE st

\* A walk that stops only where the sponsor chain ends.
CatalystStops_AtChainEnd(sponsorId, currentUserId, visited) == sponsorId = NULL

\* distributeCatalystBonus: the break of the loop (no further upline, or a loop).
CatalystStops(sponsorId, currentUserId, visited) ==
    sponsorId = NULL \/ sponsorId \in visited \/ sponsorId = currentUserId

RECURSIVE CatalystWalk(_, _, _, _, _, _, _, _)
\* The for loop of distributeCatalystBonus; level counts from 1.  st is the store
\* of the open transaction together with the rows paid so far.
CatalystWalk(c, st, currentUserId, visited, level, amount, ref, date) ==
    IF level > Len(CATALYST_LEVEL_RATES) THEN st
    ELSE LET sponsorId == SponsorOf(st.db.genealogy, currentUserId)
         IN  IF CatalystStops(sponsorId, currentUserId, visited)
             THEN st
             ELSE IF getUserActivePackInfo(c, sponsorId).highestPack = "none"
             THEN CatalystWalk(c, st, sponsorId, visited \cup {sponsorId}, level + 1,
                               amount, ref, date)
             ELSE CatalystWalk(c,
                      CatalystPay(c, st, sponsorId,
                          clampIncentive(c, st.db, sponsorId,
                              (amount \div 10000) * CATALYST_LEVEL_RATES[level]),
                          ref, date),
                      sponsorId, visited \cup {sponsorId}, level + 1, amount, ref, date)

\* distributeCatalystBonus({originUserId, amount, referenceId, trx})
distributeCatalystBonus(c, d, originUserId, amount, ref, date) ==
    CatalystWalk(c, [db |-> d, pays |-> <<>>], originUserId, {}, 1, amount, ref, date)

(***************************************************************************)
(* Power Pass-Up                                                           *)
(***************************************************************************)

\* PowerPassUp.getUserRankPercent(userId, trx)
getUserRankPercent(d, userId) ==
    IF userId \in DOMAIN d.user_ranks THEN d.user_ranks[userId] ELSE 0

RECURSIVE SponsorChainWalk(_, _, _, _)
SponsorChainWalk(g, current, visited, levels) ==
    IF levels = 0 THEN <<>>
    ELSE LET sponsorId == SponsorOf(g, current)
         IN  IF sponsorId = NULL \/ sponsorId \in visited THEN <<>>
             ELSE <<sponsorId>> \o SponsorChainWalk(g, sponsorId,
                                        visited \cup {sponsorId}, levels - 1)

\* PowerPassUp.getSponsorChain(userId, maxLevels), read through the pool connection
getSponsorChain(c, userId, maxLevels) == SponsorChainWalk(c.genealogy, userId, {}, maxLevels)

\* A baseline that moves only when the sponsor was paid.
NextBaseline_WhenPaid(previousRankPercent, sponsorRankPercent, allowed) ==
    IF allowed > 0 THEN sponsorRankPercent ELSE previousRankPercent

\* The baseline the loop of distributePowerPassUp carries to the next sponsor.
NextBaseline(previousRankPercent, sponsorRankPercent, allowed) == sponsorRankPercent

\* distributePowerPassUp: one sponsor whose override is positive, from the result cl
\* of its clamp: the credit and the allocation if anything is allowed, then the
\* baseline for the next sponsor.
PassUpPay(c, st, sponsorId, overridePercent, sponsorRankPercent, cl, ref, date) ==
    IF cl.allowed > 0
    THEN LET d2 == CreditIncentive(st.db, sponsorId, "power_passup", ref, cl.allowed, date)
         IN  [db |-> d2,
              pays |-> Append(st.pays, PayEntry(c, d2, sponsorId, "power_passup",
                                                cl.allowed, cl.info)),
              allocations |-> Append(st.allocations,
                                     [sponsorId |-> sponsorId,
                                      percent |-> overridePercent,
                                      amount |-> cl.allowed]),
              previousRankPercent |-> NextBaseline(st.previousRankPercent,
                                                   sponsorRankPercent, cl.allowed)]
    ELSE [st EXCEPT !.previousRankPercent =
                        NextBaseline(st.previousRankPercent, sponsorRankPercent,
                                     cl.allowed)]

RECURSIVE PassUpWalk(_, _, _, _, _, _)
\* The for loop of distributePowerPassUp over the rest of the chain.  st carries
\* the store of the transaction, the rows paid, the allocations and the local
\* previousRankPercent.
PassUpWalk(c, st, chain, coreAmount, ref, date) ==
    IF chain = <<>> THEN st
    ELSE LET sponsorId == Head(chain)
             sponsorRankPercent == getUserRankPercent(st.db, sponsorId)
             overridePercent == sponsorRankPercent - st.previousRankPercent
             earnedAmount == (overridePercent * coreAmount) \div 100
         IN  IF sponsorRankPercent <= st.previousRankPercent
             THEN PassUpWalk(c, st, Tail(chain), coreAmount, ref, date)
             ELSE IF earnedAmount <= 0
             THEN PassUpWalk(c, [st EXCEPT !.previousRankPercent = sponsorRankPercent],
                             Tail(chain), coreAmount, ref, date)
             ELSE PassUpWalk(c, PassUpPay(c, st, sponsorId, overridePercent,
                                          sponsorRankPercent,
                                          clampIncentive(c, st.db, sponsorId, earnedAmount),
                                          ref, date),
                             Tail(chain), coreAmount, ref, date)

\* distributePowerPassUp({originUserId, coreAmount, referenceId, trx}); paid holds the
\* rows paid so far by the caller.
distributePowerPassUp(c, d, paid, originUserId, coreAmount, ref, date) ==
    IF coreAmount <= 0
    THEN [db |-> d, pays |-> paid, allocations |-> <<>>, previousRankPercent |-> 0]
    ELSE PassUpWalk(c, [db |-> d, pays |-> paid, allocations |-> <<>>,
                        previousRankPercent |-> 0],
                    getSponsorChain(c, originUserId, 9), coreAmount, ref, date)

(***************************************************************************)
(* Synergy: volume propagation                                             *)
(***************************************************************************)

\* CYCLE_SIZE: USD 100 on each leg make one cycle
CYCLE_SIZE == Usd(100)

\* SYNERGY_RATES, in percent
SYNERGY_RATES == [spark |-> 5, pulse |-> 6, charge |-> 8, quantum |-> 10]

\* the row Synergy.ensureVolumeRow inserts (column defaults of team_volumes)
NewVolumeRow ==
    [left_volume |-> 0, right_volume |-> 0, left_carry |-> 0, right_carry |-> 0,
     daily_paid |-> 0, last_reset_date |-> NULL]

\* Synergy.ensureVolumeRow(userId, trx)
ensureVolumeRow(d, userId) ==
    IF userId \in DOMAIN d.team_volumes THEN d
    ELSE [d EXCEPT !.team_volumes =
              [u \in DOMAIN d.team_volumes \cup {userId} |->
                  IF u = userId THEN NewVolumeRow ELSE d.team_volumes[u]]]

RECURSIVE AddVolumeWalk(_, _, _, _)
\* The while(true) loop of Synergy.addVolumeToUplines, cut after fuel parents.
AddVolumeWalk(d, currentChildId, amount, fuel) ==
    IF fuel = 0 \/ currentChildId \notin DOMAIN d.genealogy
       \/ d.genealogy[currentChildId].parent_id = NULL
    THEN d
    ELSE LET parentId == d.genealogy[currentChildId].parent_id
             position == d.genealogy[currentChildId].position
             d1 == ensureVolumeRow(d, parentId)
             d2 == IF position = "left"
                   THEN [d1 EXCEPT !.team_volumes[parentId].left_volume = @ + amount]
                   ELSE IF position = "right"
                   THEN [d1 EXCEPT !.team_volumes[parentId].right_volume = @ + amount]
                   ELSE d1
         IN  AddVolumeWalk(d2, parentId, amount, fuel - 1)

RECURSIVE ParentWalkEnds(_, _, _)
\* The while(true) loop of Synergy.addVolumeToUplines reaches a row without parent
\* within fuel steps.
ParentWalkEnds(g, currentChildId, fuel) ==
    IF currentChildId \notin DOMAIN g \/ g[currentChildId].parent_id = NULL THEN TRUE
    ELSE IF fuel = 0 THEN FALSE
    ELSE ParentWalkEnds(g, g[currentChildId].parent_id, fuel - 1)

\* Synergy.addVolumeToUplines never leaves its loop: the walk has made more steps
\* than there are rows, so it is on a parent_id loop, and the loop has no other exit.
AddVolumeLoops(g, userId) == ~ParentWalkEnds(g, userId, Cardinality(DOMAIN g))

\* A propagation that stops at the staker's parent.
addVolumeToUplines_ParentOnly(d, userId, amount) == AddVolumeWalk(d, userId, amount, 1)

\* Synergy.addVolumeToUplines(userId, amount, trx)
addVolumeToUplines(d, userId, amount) ==
    AddVolumeWalk(d, userId, amount, Cardinality(DOMAIN d.genealogy))

(***************************************************************************)
(* Stake: creation, daily accrual, crediting                               *)
(***************************************************************************)

\* A row whose share count is rounded up.
NewStakeRow_SharesRoundedUp(userId, packType, amount) ==
    [user_id |-> userId, pack_type |-> packType,
     shares |-> (amount + Usd(25) - 1) \div Usd(25),
     amount |-> amount, daily_roi_rate |-> ENERGY_PACKS[packType].dailyRoiRate,
     max_reward_limit |-> ENERGY_PACKS[packType].maxRewardLimit,
     total_rewards_earned |-> 0, status |-> "active"]

\* Stake.createWithTransaction: the row inserted into stakes
NewStakeRow(userId, packType, amount) ==
    [user_id |-> userId, pack_type |-> packType, shares |-> amount \div Usd(25),
     amount |-> amount, daily_roi_rate |-> ENERGY_PACKS[packType].dailyRoiRate,
     max_reward_limit |-> ENERGY_PACKS[packType].maxRewardLimit,
     total_rewards_earned |-> 0, status |-> "active"]

\* createStake: the request passes validation and the balance check.
CreateStakeAccepted(c, userId, amount) ==
    LET shares == amount \div Usd(25)
        packType == getPackForShares(shares)
    IN  /\ amount > 0
        /\ shares >= 1
        /\ packType # "none"
        /\ validateStakeAmount(packType, amount)
        /\ userId \in DOMAIN c.wallets
        /\ c.wallets[userId] >= amount

\* createStake: the body of db.transaction (stake row, debit, stake transaction,
\* Catalyst, Synergy volume), on a request that was accepted.
CreateStakeTransaction(c, userId, amount, date) ==
    LET packType == getPackForShares(amount \div Usd(25))
        stakeId == Len(c.stakes) + 1
        d1 == [c EXCEPT !.stakes = Append(@, NewStakeRow(userId, packType, amount)),
                        !.wallets[userId] = @ - amount,
                        !.transactions = InsertTx(@, userId, "stake", stakeId,
                                                  0 - amount, date)]
        cat == distributeCatalystBonus(c, d1, userId, amount, stakeId, date)
    IN  [db |-> addVolumeToUplines(cat.db, userId, amount), pays |-> cat.pays,
         stakeId |-> stakeId]

\* SUM(ABS(amount)) of the stake transactions created on a date
StakeSales(txs, date) ==
    0 - SumTx(txs, {k \in DOMAIN txs : k[1] = "stake" /\ k[4] = date})

RECURSIVE ActiveShares(_)
\* SUM(shares) over the active stakes
ActiveShares(stk) ==
    IF stk = <<>> THEN 0
    ELSE (IF Head(stk).status = "active" THEN Head(stk).shares ELSE 0)
         + ActiveShares(Tail(stk))

\* Stake.calculateHarvestRewardForDate(stake, dateStr), HARVEST_SALES_SOURCE unset
calculateHarvestRewardForDate(d, stake, date) ==
    LET totalSales == StakeSales(d.transactions, date)
        rewardPool == totalSales \div 5
        totalShares == ActiveShares(d.stakes)
    IN  IF totalSales <= 0 \/ totalShares <= 0 THEN 0
        ELSE Min(MulDiv(rewardPool, stake.shares, totalShares), stake.amount \div 20)

\* The id the store gives to the reward of (stake_id, reward_date).
RewardId(stakeId, date) == stakeId * 100 + date

\* An accrual that does not look for the row of (stake_id, reward_date).
ExistingReward_Unchecked(rewards, stakeId, date) == NULL

\* The query of calculateDailyReward for the row of (stake_id, reward_date):
\* its id, NULL when there is none.
ExistingReward(rewards, stakeId, date) ==
    LET ids == {i \in DOMAIN rewards :
                    rewards[i].stake_id = stakeId /\ rewards[i].reward_date = date}
    IN  IF ids = {} THEN NULL ELSE SetMin(ids)

\* unique(stake_id, reward_date) of stake_rewards: may the row be inserted?
RewardInsertAllowed(rewards, row) ==
    ~ \E i \in DOMAIN rewards :
        rewards[i].stake_id = row.stake_id /\ rewards[i].reward_date = row.reward_date

\* insert into stake_rewards
InsertReward(rewards, row) ==
    LET id == RewardId(row.stake_id, row.reward_date)
    IN  [i \in DOMAIN rewards \cup {id} |-> IF i = id THEN row ELSE rewards[i]]

\* Stake.calculateDailyReward(stakeId, rewardDate): the store it leaves and what it
\* returns (kind "null", "row" with the row and its id, or "throws").
calculateDailyReward(d, stakeId, date) ==
    IF stakeId \notin DOMAIN d.stakes \/ d.stakes[stakeId].status # "active"
    THEN [db |-> d, ret |-> [kind |-> "null"]]
    ELSE LET stake == d.stakes[stakeId]
             existingReward == ExistingReward(d.stake_rewards, stakeId, date)
             coreReward == (stake.amount \div 10000) * stake.daily_roi_rate
             harvestReward == calculateHarvestRewardForDate(d, stake, date)
             row == [stake_id |-> stakeId, reward_date |-> date,
                     core_reward |-> coreReward, harvest_reward |-> harvestReward,
                     total_reward |-> coreReward + harvestReward, status |-> "pending"]
         IN  IF existingReward # NULL
             THEN [db |-> d, ret |-> [kind |-> "row", id |-> existingReward,
                                      row |-> d.stake_rewards[existingReward]]]
             ELSE IF ~RewardInsertAllowed(d.stake_rewards, row)
             THEN [db |-> d, ret |-> [kind |-> "throws"]]
             ELSE [db |-> [d EXCEPT !.stake_rewards = InsertReward(@, row)],
                   ret |-> [kind |-> "row", id |-> RewardId(stakeId, date), row |-> row]]

\* Stake.expirePendingRewards(runDate)
expirePendingRewards(d, date) ==
    [d EXCEPT !.stake_rewards =
        [i \in DOMAIN d.stake_rewards |->
            IF d.stake_rewards[i].reward_date < date /\ d.stake_rewards[i].status = "pending"
            THEN [d.stake_rewards[i] EXCEPT !.status = "expired"]
            ELSE d.stake_rewards[i]]]

RECURSIVE SortByRewardDate(_, _)
\* orderBy('reward_date', 'asc') over a set of reward ids
SortByRewardDate(rewards, ids) ==
    IF ids = {} THEN <<>>
    ELSE LET first == CHOOSE i \in ids : \A j \in ids :
                          \/ rewards[i].reward_date < rewards[j].reward_date
                          \/ (rewards[i].reward_date = rewards[j].reward_date /\ i <= j)
         IN  <<first>> \o SortByRewardDate(rewards, ids \ {first})

\* creditPendingRewards: the pending rewards of the stake, restricted to rewardIds
\* when the caller passes a list (filtered).
PendingRewards(d, stakeId, filtered, rewardIds) ==
    SortByRewardDate(d.stake_rewards,
        {i \in DOMAIN d.stake_rewards :
            /\ d.stake_rewards[i].stake_id = stakeId
            /\ d.stake_rewards[i].status = "pending"
            /\ (filtered => i \in rewardIds)})

\* A crediting that applies no cap ratio.
ScaleByCap_Unscaled(x, rawRewardAmount, remainingCap) == x

\* creditPendingRewards: a portion of a reward after the cap ratio
\* (ratio = remainingCap / rawRewardAmount when the reward exceeds the remaining cap).
ScaleByCap(x, rawRewardAmount, remainingCap) ==
    IF rawRewardAmount > remainingCap THEN MulDiv(x, remainingCap, rawRewardAmount) ELSE x

\* A credit that never finds a reward too old.
RewardExpired_Never(rewardDate, now) == FALSE

\* creditPendingRewards: has a reward dated rewardDate passed its 24 hours at date now?
\* (now - midnight of rewardDate > 24h: now lies on a later calendar date)
RewardExpired(rewardDate, now) == now > rewardDate

\* creditPendingRewards: the update of a reward row after its pass-up (pass is what
\* distributePowerPassUp returned) and the running totals.
MarkCredited(st, pass, id, coreAmount, harvestAmount, rewardAmount) ==
    [db |-> [pass.db EXCEPT
                !.stake_rewards[id] =
                    [@ EXCEPT !.status = "credited",
                              !.core_reward = coreAmount,
                              !.harvest_reward = harvestAmount,
                              !.total_reward = rewardAmount]],
     pays |-> pass.pays,
     currentTotalRewards |-> st.currentTotalRewards + rewardAmount,
     totalCredited |-> st.totalCredited + rewardAmount]

\* creditPendingRewards: one reward that has neither expired nor met a used-up limit:
\* the cap ratio, the staker's credit, the pass-up, the update of the row.
CreditReward(c, st, id, stake, remainingCap, now) ==
    LET reward == st.db.stake_rewards[id]
        rawRewardAmount == reward.total_reward
        rewardAmount == ScaleByCap(rawRewardAmount, rawRewardAmount, remainingCap)
        coreAmount == ScaleByCap(reward.core_reward, rawRewardAmount, remainingCap)
        harvestAmount == ScaleByCap(reward.harvest_reward, rawRewardAmount, remainingCap)
        stakerRankPercent == getUserRankPercent(st.db, stake.user_id)
        stakerCorePortion == (coreAmount * stakerRankPercent) \div 100
        stakerTotalCredit == harvestAmount + stakerCorePortion
        d1 == [st.db EXCEPT
                  !.wallets[stake.user_id] = @ + stakerTotalCredit,
                  !.transactions = InsertTx(@, stake.user_id, "stake_reward",
                                            id, stakerTotalCredit, now)]
        remainingCoreAmount == coreAmount - stakerCorePortion
    IN  MarkCredited(st,
                     distributePowerPassUp(c, d1, st.pays, stake.user_id,
                                           remainingCoreAmount, id, now),
                     id, coreAmount, harvestAmount, rewardAmount)

RECURSIVE CreditWalk(_, _, _, _, _, _)
\* The for loop of creditPendingRewards over the pending rewards.  st carries the
\* store of the transaction, the rows paid, currentTotalRewards and totalCredited.
CreditWalk(c, st, pending, stake, maxRewards, now) ==
    IF pending = <<>> THEN st
    ELSE LET id == Head(pending)
             remainingCap == maxRewards - st.currentTotalRewards
         IN  IF RewardExpired(st.db.stake_rewards[id].reward_date, now)
                \/ remainingCap <= 0
             THEN CreditWalk(c, [st EXCEPT !.db.stake_rewards[id].status = "expired"],
                             Tail(pending), stake, maxRewards, now)
             ELSE CreditWalk(c, CreditReward(c, st, id, stake, remainingCap, now),
                             Tail(pending), stake, maxRewards, now)

\* creditPendingRewards: after the loop, the update of the stake row and the result.
CreditResult(st, stakeId, maxRewards, credited) ==
    [db |-> IF st.totalCredited > 0
            THEN [st.db EXCEPT
                     !.stakes[stakeId].total_rewards_earned = st.currentTotalRewards,
                     !.stakes[stakeId].status =
                         IF st.currentTotalRewards >= maxRewards THEN "completed" ELSE @]
            ELSE st.db,
     pays |-> st.pays,
     ret |-> [credited |-> credited, totalAmount |-> st.totalCredited]]

\* Stake.creditPendingRewards(stakeId, rewardIds): one transaction on the committed
\* store c; returns the store to commit, the incentive rows paid and the result.
creditPendingRewards(c, stakeId, filtered, rewardIds, now) ==
    LET pendingRewards == PendingRewards(c, stakeId, filtered, rewardIds)
        stake == c.stakes[stakeId]
        maxRewards == (stake.amount \div 100) * stake.max_reward_limit
    IN  IF pendingRewards = <<>>
        THEN [db |-> c, pays |-> <<>>, ret |-> [credited |-> 0, totalAmount |-> 0]]
        ELSE CreditResult(CreditWalk(c, [db |-> c, pays |-> <<>>,
                                         currentTotalRewards |->
                                             stake.total_rewards_earned,
                                         totalCredited |-> 0],
                                     pendingRewards, stake, maxRewards, now),
                          stakeId, maxRewards, Len(pendingRewards))

(***************************************************************************)
(* Rank                                                                    *)
(***************************************************************************)

\* RANK_LADDER, pack and team values in USD
RANK_LADDER ==
    << [key |-> "spark",   minDirects |-> 1, minPackValue |-> 25,    teamVolume |-> 1000,
        percent |-> 5],
       [key |-> "pulse",   minDirects |-> 2, minPackValue |-> 250,   teamVolume |-> 5000,
        percent |-> 10],
       [key |-> "charge",  minDirects |-> 3, minPackValue |-> 500,   teamVolume |-> 15000,
        percent |-> 15],
       [key |-> "surge",   minDirects |-> 4, minPackValue |-> 1000,  teamVolume |-> 50000,
        percent |-> 25],
       [key |-> "flux",    minDirects |-> 5, minPackValue |-> 2500,  teamVolume |-> 100000,
        percent |-> 40],
       [key |-> "volt",    minDirects |-> 6, minPackValue |-> 5000,  teamVolume |-> 250000,
        percent |-> 55],
       [key |-> "current", minDirects |-> 7, minPackValue |-> 10000, teamVolume |-> 500000,
        percent |-> 70],
       [key |-> "magnet",  minDirects |-> 8, minPackValue |-> 25000, teamVolume |-> 1000000,
        percent |-> 85],
       [key |-> "quantum", minDirects |-> 9, minPackValue |-> 50000, teamVolume |-> 2000000,
        percent |-> 100] >>

\* Rank.getDirectReferralsCount
getDirectReferralsCount(d, userId) ==
    Cardinality({u \in DOMAIN d.genealogy : d.genealogy[u].sponsor_id = userId})

RECURSIVE DownlineWalk(_, _, _)
\* Rank.getDownlineUserIds, as the set of ids the queue walk collects, level by
\* level over sponsor_id, cut after fuel levels.
DownlineWalk(g, frontier, fuel) ==
    IF frontier = {} \/ fuel = 0 THEN {}
    ELSE LET children == {u \in DOMAIN g : g[u].sponsor_id \in frontier}
         IN  children \cup DownlineWalk(g, children, fuel - 1)

RECURSIVE DownlineFrontier(_, _, _)
\* Rank.getDownlineUserIds: the ids in the queue after fuel levels of the walk.
DownlineFrontier(g, frontier, fuel) ==
    IF frontier = {} \/ fuel = 0 THEN frontier
    ELSE DownlineFrontier(g, {u \in DOMAIN g : g[u].sponsor_id \in frontier}, fuel - 1)

\* Rank.getDownlineUserIds never empties its queue: after as many levels as there
\* are rows it still holds ids, so it is going round a sponsor_id loop, and the
\* walk keeps no visited set.
DownlineLoops(g, userId) == DownlineFrontier(g, {userId}, Cardinality(DOMAIN g)) # {}

RECURSIVE StakedBy(_, _)
\* SUM(amount) over the stakes, of any status, of a set of users, in whole USD
StakedBy(stk, userIds) ==
    IF stk = <<>> THEN 0
    ELSE (IF Head(stk).user_id \in userIds THEN Head(stk).amount \div Usd(1) ELSE 0)
         + StakedBy(Tail(stk), userIds)

\* A team volume that counts the stakes of the direct referrals only.
getTeamSalesVolume_DirectsOnly(d, userId) ==
    StakedBy(d.stakes, DownlineWalk(d.genealogy, {userId}, 1))

\* Rank.getTeamSalesVolume
getTeamSalesVolume(d, userId) ==
    StakedBy(d.stakes, DownlineWalk(d.genealogy, {userId}, Cardinality(DOMAIN d.genealogy)))

\* Rank.evaluateUserRank(userId): the last ladder entry whose three conditions are
\* met (targetRank "none" for null).
evaluateUserRank(d, userId) ==
    LET directReferrals == getDirectReferralsCount(d, userId)
        packAmount == getUserActivePackInfo(d, userId).totalAmount \div Usd(1)
        teamVolume == getTeamSalesVolume(d, userId)
        met == {i \in DOMAIN RANK_LADDER :
                    /\ directReferrals >= RANK_LADDER[i].minDirects
                    /\ packAmount >= RANK_LADDER[i].minPackValue
                    /\ teamVolume >= RANK_LADDER[i].teamVolume}
        target == CHOOSE i \in met : \A j \in met : j <= i
    IN  IF met = {} THEN [targetRank |-> "none", targetPercent |-> 0]
        ELSE [targetRank |-> RANK_LADDER[target].key,
              targetPercent |-> RANK_LADDER[target].percent]

\* A rank update that stores nothing.
setUserRank_Ignored(d, userId, percent) == d

\* Rank.setUserRank(userId, rankKey, percentOverride): the percent is stored as given.
setUserRank(d, userId, percent) == [d EXCEPT !.user_ranks[userId] = percent]

\* Rank.autoPromoteUser(userId)
autoPromoteUser(d, userId) ==
    LET evalResult == evaluateUserRank(d, userId)
        currentPercent == getUserRankPercent(d, userId)
    IN  IF evalResult.targetRank = "none"
        THEN (IF currentPercent > 0 THEN setUserRank(d, userId, 0) ELSE d)
        ELSE IF evalResult.targetPercent < currentPercent
        THEN setUserRank(d, userId, evalResult.targetPercent)
        ELSE IF evalResult.targetPercent > currentPercent
        THEN setUserRank(d, userId, evalResult.targetPercent)
        ELSE d

\* Rank.autoPromoteUser(userId): the promoted and demoted flags of the result.
autoPromoteResult(d, userId) ==
    LET evalResult == evaluateUserRank(d, userId)
        currentPercent == getUserRankPercent(d, userId)
    IN  IF evalResult.targetRank = "none"
        THEN [promoted |-> FALSE, demoted |-> currentPercent > 0]
        ELSE [promoted |-> evalResult.targetPercent > currentPercent,
              demoted |-> evalResult.targetPercent < currentPercent]

(***************************************************************************)
(* Synergy: daily settlement                                               *)
(***************************************************************************)

\* Synergy.hasActiveDirectOnSide(userId, side)
hasActiveDirectOnSide(d, userId, side) ==
    LET direct == VerifiedChild(d.genealogy, d.is_verified, userId, side)
    IN  direct # NULL /\ ActiveStakeIds(d.stakes, direct) # {}

\* An eligibility that looks at the left side only.
getEligibility_LeftOnly(d, userId) == hasActiveDirectOnSide(d, userId, "left")

\* Synergy.getEligibility(userId).eligible
getEligibility(d, userId) ==
    hasActiveDirectOnSide(d, userId, "left") /\ hasActiveDirectOnSide(d, userId, "right")

\* Synergy.resetDailyIfNeeded(volumeRow, todayStr)
resetDailyIfNeeded(d, userId, todayStr) ==
    IF d.team_volumes[userId].last_reset_date = todayStr THEN d
    ELSE [d EXCEPT !.team_volumes[userId].daily_paid = 0,
                   !.team_volumes[userId].last_reset_date = todayStr]

\* A flush that keeps what each leg held as its carry.
FlushedRow_KeepBoth(row, leftTotal, rightTotal) ==
    [row EXCEPT !.left_volume = 0, !.right_volume = 0,
                !.left_carry = leftTotal, !.right_carry = rightTotal]

\* processUserCycles, no cycle payable under the daily cap: the row it writes.
FlushedRow(row, leftTotal, rightTotal) ==
    LET weaker == Min(leftTotal, rightTotal)
        stronger == Max(leftTotal, rightTotal)
        isLeftWeaker == leftTotal <= rightTotal
    IN  [row EXCEPT !.left_volume = 0, !.right_volume = 0,
                    !.left_carry = IF isLeftWeaker THEN 0 ELSE stronger - weaker,
                    !.right_carry = IF isLeftWeaker THEN stronger - weaker ELSE 0]

\* The Synergy module binds RewardCap.
RewardCapBound_Required == TRUE

\* Whether the module that defines Synergy binds the name RewardCap: its requires
\* are db, Stake, Genealogy and JobRun only.
RewardCapBound == FALSE

\* processUserCycles from the clamp on, for cyclesToPay > 0 cycles: the update of
\* team_volumes, the insert into team_cycles, then the wallet credit with its
\* synergy_flow transaction (reference taken as RewardId(userId, todayStr)).
SettlePaid(d1, userId, todayStr, leftTotal, rightTotal, cyclesToPay, rate, packType) ==
    LET allowed == clampIncentive(d1, d1, userId,
                                  cyclesToPay * ((CYCLE_SIZE \div 100) * rate)).allowed
        usedVolume == cyclesToPay * CYCLE_SIZE
        d2 == [d1 EXCEPT
                 !.team_volumes[userId] =
                     [@ EXCEPT !.left_volume = 0, !.right_volume = 0,
                               !.left_carry = leftTotal - usedVolume,
                               !.right_carry = rightTotal - usedVolume,
                               !.daily_paid = @ + allowed,
                               !.last_reset_date = todayStr],
                 !.team_cycles =
                     Append(@, [user_id |-> userId, cycle_date |-> todayStr,
                                cycles |-> cyclesToPay, left_used |-> usedVolume,
                                right_used |-> usedVolume, reward_amount |-> allowed,
                                rate_used |-> rate, pack_type |-> packType])]
    IN  IF allowed <= 0
        THEN [db |-> d1, ret |-> [kind |-> "result", cycles |-> 0, reward |-> 0,
                                  ineligible |-> FALSE, capReached |-> TRUE]]
        ELSE [db |-> CreditIncentive(d2, userId, "synergy_flow",
                                     RewardId(userId, todayStr), allowed, todayStr),
              ret |-> [kind |-> "result", cycles |-> cyclesToPay, reward |-> allowed,
                       ineligible |-> FALSE, capReached |-> FALSE]]

\* Synergy.processUserCycles(userId) on the pool connection: every statement is
\* committed as it runs.  The module that defines it binds db, Stake, Genealogy and
\* JobRun only, so the evaluation of RewardCap.clampIncentive, reached when there
\* is a cycle to pay, throws a ReferenceError before anything is paid or settled.
processUserCycles(d, userId, todayStr) ==
    LET d1 == resetDailyIfNeeded(ensureVolumeRow(d, userId), userId, todayStr)
        freshRow == d1.team_volumes[userId]
        leftTotal == freshRow.left_volume + freshRow.left_carry
        rightTotal == freshRow.right_volume + freshRow.right_carry
        info == getUserActivePackInfo(d1, userId)
        rate == IF info.highestPack = "none" THEN 0 ELSE SYNERGY_RATES[info.highestPack]
        cap == info.totalAmount
        cyclesAvailable == Min(leftTotal, rightTotal) \div CYCLE_SIZE
        perCycleReward == (CYCLE_SIZE \div 100) * rate
        remainingCap == Max(0, cap - freshRow.daily_paid)
        maxCyclesByCap == remainingCap \div perCycleReward
        cyclesToPay == Min(cyclesAvailable, maxCyclesByCap)
        flushed == [d1 EXCEPT !.team_volumes[userId] =
                                  FlushedRow(@, leftTotal, rightTotal)]
    IN  IF leftTotal < CYCLE_SIZE \/ rightTotal < CYCLE_SIZE
        THEN [db |-> d1, ret |-> [kind |-> "result", cycles |-> 0, reward |-> 0,
                                  ineligible |-> FALSE, capReached |-> FALSE]]
        ELSE IF ~getEligibility(d1, userId)
        THEN [db |-> d1, ret |-> [kind |-> "result", cycles |-> 0, reward |-> 0,
                                  ineligible |-> TRUE, capReached |-> FALSE]]
        ELSE IF rate = 0 \/ cap <= 0
        THEN [db |-> d1, ret |-> [kind |-> "result", cycles |-> 0, reward |-> 0,
                                  ineligible |-> FALSE, capReached |-> FALSE]]
        ELSE IF cyclesToPay <= 0
        THEN [db |-> flushed, ret |-> [kind |-> "result", cycles |-> 0, reward |-> 0,
                                       ineligible |-> FALSE, capReached |-> TRUE]]
        ELSE IF ~RewardCapBound
        THEN [db |-> d1, ret |-> [kind |-> "throws", cycles |-> 0, reward |-> 0,
                                  ineligible |-> FALSE, capReached |-> FALSE]]
        ELSE SettlePaid(d1, userId, todayStr, leftTotal, rightTotal, cyclesToPay, rate,
                        info.highestPack)

\* After the admin seed: one verified root without sponsor.
InitPlacement ==
    /\ users = {1}
    /\ is_verified = [u \in {1} |-> TRUE]
    /\ genealogy = [u \in {1} |-> [parent_id |-> NULL, sponsor_id |-> NULL,
                                   position |-> "none"]]
    /\ ret = [op |-> "init"]
    /\ NoLedger /\ NoJobs /\ NoProcs

NextPlacement ==
    \/ \E referrer \in users \cup {NULL} : Register(referrer)
    \/ \E u \in users, flag \in BOOLEAN : SetVerified(u, flag)

SpecPlacement == InitPlacement /\ [][NextPlacement]_vars

(***************************************************************************)
(* C1: no two genealogy rows share the same non-null (parent_id, position) *)
(* pair, after any sequence of registrations and for every setting of the  *)
(* verified flags of the participants already placed.                      *)
(***************************************************************************)
C1_PlacementInvariant ==
    \A u, v \in DOMAIN genealogy :
        (u # v /\ genealogy[u].parent_id # NULL /\ genealogy[u].position \in Sides)
            => ~(genealogy[u].parent_id = genealogy[v].parent_id
                 /\ genealogy[u].position = genealogy[v].position)

(***************************************************************************)
(* JobRun and the daily batches                                            *)
(***************************************************************************)

Jobs == {"core_harvest", "synergy_flow"}

\* JobRun.start(jobName, runDate): the insert, whose duplicate-key error is caught
JobStart(jr, jobName, dateStr) ==
    IF \E r \in jr : r.job_name = jobName /\ r.run_date = dateStr
    THEN jr
    ELSE jr \cup {[job_name |-> jobName, run_date |-> dateStr, status |-> "running"]}

\* JobRun.finish(jobName, runDate, status)
JobFinish(jr, jobName, dateStr, status) ==
    {IF r.job_name = jobName /\ r.run_date = dateStr
     THEN [r EXCEPT !.status = status] ELSE r : r \in jr}

\* A batch that runs whatever the job row says.
AlreadyRan_Never(jr, jobName, dateStr) == FALSE

\* The guard of runDailyCoreHarvest and processAllUsers on JobRun.getStatus(jobName),
\* the row of the job with the latest run_date.
AlreadyRan(jr, jobName, dateStr) ==
    \E existing \in jr :
        /\ existing.job_name = jobName
        /\ \A r \in jr : r.job_name = jobName => r.run_date <= existing.run_date
        /\ existing.run_date = dateStr
        /\ existing.status = "success"

RECURSIVE AccrueWalk(_, _, _)
\* The for loop of runDailyCoreHarvest over the ids of the active stakes.
AccrueWalk(st, ids, date) ==
    IF ids = {} \/ st.throws THEN st
    ELSE LET id == SetMin(ids)
             res == calculateDailyReward(st.db, id, date)
         IN  AccrueWalk([db |-> res.db,
                         rewards_created |-> st.rewards_created
                             + (IF res.ret.kind = "row" THEN 1 ELSE 0),
                         throws |-> res.ret.kind = "throws"],
                        ids \ {id}, date)

\* runDailyCoreHarvest after JobRun.start: expiry, then the accrual loop
CoreHarvestBody(d, date) ==
    LET d1 == expirePendingRewards(d, date)
    IN  AccrueWalk([db |-> d1, rewards_created |-> 0, throws |-> FALSE],
                   {i \in DOMAIN d1.stakes : d1.stakes[i].status = "active"}, date)

RECURSIVE SettleWalk(_, _, _)
\* The for loop of processAllUsers over the users of team_volumes; a throw of
\* processUserCycles leaves the loop.
SettleWalk(st, ids, date) ==
    IF ids = {} \/ st.throws THEN st
    ELSE LET id == SetMin(ids)
             res == processUserCycles(st.db, id, date)
         IN  SettleWalk([db |-> res.db,
                         rewards_created |-> st.rewards_created + res.ret.reward,
                         throws |-> res.ret.kind = "throws"],
                        ids \ {id}, date)

\* processAllUsers after JobRun.start
SynergyBody(d, date) ==
    SettleWalk([db |-> d, rewards_created |-> 0, throws |-> FALSE],
               DOMAIN d.team_volumes, date)

\* The body of a batch
BatchBody(jobName, d, date) ==
    IF jobName = "core_harvest" THEN CoreHarvestBody(d, date) ELSE SynergyBody(d, date)

\* One invocation of a daily batch, run to its end: Stake.runDailyCoreHarvest or
\* Synergy.processAllUsers, called by its cron script (viaScript: the script then
\* marks the run success, or failed when the batch threw) or by its HTTP entry.
RunDailyBatch(jobName, viaScript) ==
    LET skipped == AlreadyRan(job_runs, jobName, today)
        body == BatchBody(jobName, DB, today)
        started == JobStart(job_runs, jobName, today)
        ended == IF body.throws THEN started
                 ELSE JobFinish(started, jobName, today, "success")
    IN  /\ IF skipped
           THEN /\ UNCHANGED ledgerVars
                /\ job_runs' = IF viaScript
                               THEN JobFinish(job_runs, jobName, today, "success")
                               ELSE job_runs
                /\ ret' = [op |-> jobName, skipped |-> TRUE, throws |-> FALSE,
                           created |-> 0]
           ELSE /\ Commit(body.db)
                /\ job_runs' = IF viaScript
                               THEN JobFinish(ended, jobName, today,
                                        IF body.throws THEN "failed" ELSE "success")
                               ELSE ended
                /\ ret' = [op |-> jobName, skipped |-> FALSE, throws |-> body.throws,
                           created |-> body.rewards_created]
        /\ pays' = <<>>
        /\ UNCHANGED <<placementVars, today, procVars>>

(***************************************************************************)
(* Requests                                                                *)
(***************************************************************************)

\* Largest calendar date of a scenario.
MaxDay == 1

\* Largest number of stakes of one participant.
MaxStakesPerUser == 1

StakeCount(stk, userId) == Cardinality({i \in DOMAIN stk : stk[i].user_id = userId})

\* createStake(req): a request that is refused leaves everything as it is.  When
\* the volume propagation never ends, neither does the request: no response is
\* sent (status NULL) and the transaction is never committed.
CreateStake(userId, amount) ==
    LET res == CreateStakeTransaction(DB, userId, amount, today)
    IN  /\ userId \in users
        /\ StakeCount(stakes, userId) < MaxStakesPerUser
        /\ IF CreateStakeAccepted(DB, userId, amount) /\ AddVolumeLoops(genealogy, userId)
           THEN /\ UNCHANGED ledgerVars
                /\ pays' = <<>>
                /\ ret' = [op |-> "createStake", status |-> NULL, stakeId |-> NULL]
           ELSE IF CreateStakeAccepted(DB, userId, amount)
           THEN /\ Commit(res.db)
                /\ pays' = res.pays
                /\ ret' = [op |-> "createStake", status |-> 200, stakeId |-> res.stakeId]
           ELSE /\ UNCHANGED ledgerVars
                /\ pays' = <<>>
                /\ ret' = [op |-> "createStake", status |-> 400, stakeId |-> NULL]
        /\ UNCHANGED <<placementVars, job_runs, today, procVars>>

\* Rank.autoPromoteUser(userId), as run by triggerRankPromotionChain some time after
\* a stake was created (it is not awaited) and by the daily rank batch.
\* When the downline walk of the evaluation never ends, the call never returns.
AutoPromoteUser(userId) ==
    /\ userId \in users
    /\ IF DownlineLoops(genealogy, userId)
       THEN UNCHANGED ledgerVars
       ELSE Commit(autoPromoteUser(DB, userId))
    /\ pays' = <<>>
    /\ ret' = [op |-> "autoPromoteUser", userId |-> userId,
               returns |-> ~DownlineLoops(genealogy, userId),
               promoted |-> ~DownlineLoops(genealogy, userId)
                               /\ autoPromoteResult(DB, userId).promoted,
               demoted |-> ~DownlineLoops(genealogy, userId)
                              /\ autoPromoteResult(DB, userId).demoted]
    /\ UNCHANGED <<placementVars, job_runs, today, procVars>>

\* adminSetUserRank(req): override_percent of the body goes to setUserRank as it is.
AdminSetUserRank(userId, percent) ==
    /\ userId \in users
    /\ Commit(setUserRank(DB, userId, percent))
    /\ pays' = <<>>
    /\ ret' = [op |-> "adminSetUserRank", userId |-> userId]
    /\ UNCHANGED <<placementVars, job_runs, today, procVars>>

\* Stake.calculateDailyReward(stakeId, today)
CalculateDailyReward(stakeId) ==
    LET res == calculateDailyReward(DB, stakeId, today)
    IN  /\ stakeId \in DOMAIN stakes
        /\ Commit(res.db)
        /\ pays' = <<>>
        /\ ret' = [op |-> "calculateDailyReward", stakeId |-> stakeId, result |-> res.ret]
        /\ UNCHANGED <<placementVars, job_runs, today, procVars>>

\* Stake.creditPendingRewards(stakeId, rewardIds)
CreditPendingRewards(stakeId, filtered, rewardIds) ==
    LET res == creditPendingRewards(DB, stakeId, filtered, rewardIds, today)
    IN  /\ stakeId \in DOMAIN stakes
        /\ Commit(res.db)
        /\ pays' = res.pays
        /\ ret' = [op |-> "creditPendingRewards", stakeId |-> stakeId, result |-> res.ret]
        /\ UNCHANGED <<placementVars, job_runs, today, procVars>>

\* The calendar date advances.
NextDay ==
    /\ today < MaxDay
    /\ today' = today + 1
    /\ UNCHANGED <<placementVars, ledgerVars, job_runs, pays, ret, procVars>>

(***************************************************************************)
(* The ledger scenario: three placed participants, one stake in place      *)
(***************************************************************************)

\* What register leaves for: 1 (seeded root), 2 referred by 1, 3 referred by 2.
LedgerGenealogy ==
    <<[parent_id |-> NULL, sponsor_id |-> NULL, position |-> "none"],
      [parent_id |-> 1, sponsor_id |-> 1, position |-> "left"],
      [parent_id |-> 2, sponsor_id |-> 2, position |-> "left"]>>

\* Amounts a stake request carries.
StakeAmounts == {Usd(25), Usd(1000)}

\* total_rewards_earned of the stake of participant 2 at the start: nothing yet, or
\* all but 0.10 USD of its limit of 50 USD.
EarnedAtStart == {0, Usd(50) - 10000}

\* Percents the admin rank request carries.
AdminPercents == {25, 150}

InitLedger ==
    /\ users = 1..3
    /\ is_verified = [u \in 1..3 |-> TRUE]
    /\ genealogy = LedgerGenealogy
    /\ \E earned \in EarnedAtStart :
          stakes = <<[NewStakeRow(2, "spark", Usd(25)) EXCEPT
                         !.total_rewards_earned = earned]>>
    /\ stake_rewards = <<>>
    /\ wallets = <<0, 0, Usd(1025)>>
    /\ transactions = <<>>
    /\ user_ranks = [u \in 1..3 |-> 0]
    /\ team_volumes = [u \in {1} |-> [NewVolumeRow EXCEPT !.left_volume = Usd(25)]]
    /\ team_cycles = <<>>
    /\ deposits = <<>>
    /\ job_runs = {}
    /\ today = 0
    /\ pays = <<>>
    /\ ret = [op |-> "init"]
    /\ NoProcs

NextLedger ==
    \/ \E userId \in users, amount \in StakeAmounts : CreateStake(userId, amount)
    \/ \E userId \in users : AutoPromoteUser(userId)
    \/ \E stakeId \in DOMAIN stakes : CalculateDailyReward(stakeId)
    \/ \E stakeId \in DOMAIN stakes : CreditPendingRewards(stakeId, FALSE, {})
    \/ \E stakeId \in DOMAIN stakes, id \in DOMAIN stake_rewards :
           CreditPendingRewards(stakeId, TRUE, {id})
    \/ NextDay

SpecLedger == InitLedger /\ [][NextLedger]_vars

(***************************************************************************)
(* The batch scenario: the ledger scenario, with the daily batches run one *)
(* invocation at a time                                                    *)
(***************************************************************************)

\* What register leaves for: 1 (seeded root), 2 and 3 referred by 1, 4 referred by 2.
IncentiveGenealogy ==
    <<[parent_id |-> NULL, sponsor_id |-> NULL, position |-> "none"],
      [parent_id |-> 1, sponsor_id |-> 1, position |-> "left"],
      [parent_id |-> 1, sponsor_id |-> 1, position |-> "right"],
      [parent_id |-> 2, sponsor_id |-> 2, position |-> "left"]>>

\* Participant 3 staked USD 1000 and then participant 1 staked USD 25: no upline
\* held a stake when its downline staked, so no Catalyst bonus was paid.
BatchTables ==
    /\ users = 1..4
    /\ is_verified = [u \in 1..4 |-> TRUE]
    /\ genealogy = IncentiveGenealogy
    /\ stakes = <<NewStakeRow(3, "pulse", Usd(1000)), NewStakeRow(1, "spark", Usd(25))>>
    /\ stake_rewards = <<>>
    /\ wallets = <<0, Usd(1000), 0, 0>>
    /\ transactions = <<>>
    /\ user_ranks = [u \in 1..4 |-> 0]
    /\ team_volumes = [u \in {1} |-> [NewVolumeRow EXCEPT !.right_volume = Usd(1000)]]
    /\ team_cycles = <<>>
    /\ deposits = <<>>
    /\ job_runs = {}
    /\ today = 0
    /\ pays = <<>>
    /\ ret = [op |-> "init"]

InitBatch == BatchTables /\ NoProcs

NextBatch ==
    \/ \E jobName \in Jobs, viaScript \in BOOLEAN : RunDailyBatch(jobName, viaScript)
    \/ \E userId \in users, amount \in StakeAmounts : CreateStake(userId, amount)
    \/ \E stakeId \in DOMAIN stakes : CreditPendingRewards(stakeId, FALSE, {})
    \/ NextDay

SpecBatch == InitBatch /\ [][NextBatch]_vars

(***************************************************************************)
(* The incentive scenario: four placed participants, one active stake,     *)
(* on one calendar date                                                    *)
(***************************************************************************)

\* Participant 1 staked USD 25; participant 3 then staked USD 500, which paid 1 a
\* Catalyst bonus of USD 45, and that stake has since reached its limit.
InitIncentive ==
    /\ users = 1..4
    /\ is_verified = [u \in 1..4 |-> TRUE]
    /\ genealogy = IncentiveGenealogy
    /\ stakes = <<NewStakeRow(1, "spark", Usd(25)),
                  [NewStakeRow(3, "pulse", Usd(500)) EXCEPT
                      !.total_rewards_earned = Usd(1500), !.status = "completed"]>>
    /\ stake_rewards = <<>>
    /\ wallets = <<Usd(45), 0, 0, Usd(1000)>>
    /\ transactions = [k \in {<<"catalyst_bonus", 1, 2, -1>>} |-> Usd(45)]
    /\ user_ranks = [u \in 1..4 |-> 0]
    /\ team_volumes = [u \in {1} |-> [NewVolumeRow EXCEPT !.right_volume = Usd(500)]]
    /\ team_cycles = <<>>
    /\ deposits = <<>>
    /\ job_runs = {}
    /\ today = 0
    /\ pays = <<>>
    /\ ret = [op |-> "init"]
    /\ NoProcs

\* Participants whose rank the admin sets in the incentive scenario: the staker
\* of the new stake and its two uplines.
AdminRanked == {1, 2, 4}

NextIncentive ==
    \/ \E amount \in StakeAmounts : CreateStake(4, amount)
    \/ \E userId \in AdminRanked, percent \in AdminPercents :
           AdminSetUserRank(userId, percent)
    \/ \E stakeId \in DOMAIN stakes : CalculateDailyReward(stakeId)
    \/ \E stakeId \in DOMAIN stakes : CreditPendingRewards(stakeId, FALSE, {})
    \/ \E viaScript \in BOOLEAN : RunDailyBatch("synergy_flow", viaScript)

SpecIncentive == InitIncentive /\ [][NextIncentive]_vars

(***************************************************************************)
(* C2: total_rewards_earned of a stake never exceeds amount x               *)
(* max_reward_limit / 100; a stake that has reached that value is          *)
(* completed, and from then on accrual creates no reward row for it and    *)
(* crediting adds nothing to it (its row, its reward rows' ids and the     *)
(* stake_reward transactions of its rewards stay as they are).             *)
(***************************************************************************)
RewardLimit(stake) == (stake.amount \div 100) * stake.max_reward_limit

RewardIdsOf(rewards, stakeId) == {id \in DOMAIN rewards : rewards[id].stake_id = stakeId}

StakeRewardTx(txs, ids) == {k \in DOMAIN txs : k[1] = "stake_reward" /\ k[3] \in ids}

C2_LimitReached(i) == stakes[i].total_rewards_earned >= RewardLimit(stakes[i])

C2_RewardLimit ==
    /\ [](\A i \in DOMAIN stakes :
            /\ stakes[i].total_rewards_earned <= RewardLimit(stakes[i])
            /\ C2_LimitReached(i) => stakes[i].status = "completed")
    /\ [][\A i \in DOMAIN stakes :
            C2_LimitReached(i) =>
                /\ stakes'[i] = stakes[i]
                /\ RewardIdsOf(stake_rewards', i) = RewardIdsOf(stake_rewards, i)
                /\ StakeRewardTx(transactions', RewardIdsOf(stake_rewards', i))
                       = StakeRewardTx(transactions, RewardIdsOf(stake_rewards, i))
                /\ \A k \in StakeRewardTx(transactions, RewardIdsOf(stake_rewards, i)) :
                       transactions'[k] = transactions[k]]_vars

\* A stake that reached its limit through a credit, for which an accrual has just
\* returned null.
C2_Witness ==
    \E i \in DOMAIN stakes :
        /\ stakes[i].total_rewards_earned = RewardLimit(stakes[i])
        /\ stakes[i].status = "completed"
        /\ \E id \in RewardIdsOf(stake_rewards, i) : stake_rewards[id].status = "credited"
        /\ ret.op = "calculateDailyReward"
        /\ ret.stakeId = i
        /\ ret.result.kind = "null"

(***************************************************************************)
(* C5: a call of calculateDailyReward for an active stake and a date that  *)
(* already has a reward row inserts nothing and returns that row as it is, *)
(* so the table keeps exactly one row for the (stake, date).               *)
(***************************************************************************)
RowsOfDate(rewards, stakeId, date) ==
    {id \in DOMAIN rewards :
        rewards[id].stake_id = stakeId /\ rewards[id].reward_date = date}

C5_SecondCallKeepsRow ==
    [][\A s \in DOMAIN stakes :
          (/\ CalculateDailyReward(s)
           /\ stakes[s].status = "active"
           /\ RowsOfDate(stake_rewards, s, today) # {})
          => /\ stake_rewards' = stake_rewards
             /\ Cardinality(RowsOfDate(stake_rewards', s, today)) = 1
             /\ ret'.result.kind = "row"
             /\ \A id \in RowsOfDate(stake_rewards, s, today) :
                    ret'.result.id = id /\ ret'.result.row = stake_rewards[id]]_vars

\* A second call has returned the stored row although the harvest of the date has
\* changed since the row was written.
C5_Witness ==
    /\ ret.op = "calculateDailyReward"
    /\ ret.result.kind = "row"
    /\ stakes[ret.stakeId].status = "active"
    /\ ret.result.id \in DOMAIN stake_rewards
    /\ ret.result.row = stake_rewards[ret.result.id]
    /\ ret.result.row.status = "pending"
    /\ ret.result.row.harvest_reward
           # calculateHarvestRewardForDate(DB, stakes[ret.stakeId], today)

(***************************************************************************)
(* C4: while the job row of (job, D) says success, an invocation of that   *)
(* daily batch on date D returns skipped: true and changes no ledger table *)
(* (no stake_rewards row, no expiry, no settlement, no wallet credit), and *)
(* the row stays success for the rest of D.                                *)
(***************************************************************************)
SuccessRow(jr, jobName, dateStr) ==
    \E r \in jr : r.job_name = jobName /\ r.run_date = dateStr /\ r.status = "success"

C6_PaidWithinHeadroom ==
    \A i \in DOMAIN pays :
        /\ pays[i].type \in INCENTIVE_TYPES
        /\ pays[i].amount > 0
        /\ pays[i].amount <= pays[i].info.capAmount - pays[i].info.used
        /\ pays[i].usedAfter = pays[i].info.used + pays[i].amount
        /\ pays[i].usedAfter <= pays[i].info.capAmount
        /\ pays[i].staked

\* A Catalyst bonus was cut to the headroom left by an earlier bonus.
C6_Witness ==
    \E i \in DOMAIN pays :
        /\ pays[i].type = "catalyst_bonus"
        /\ pays[i].info.used > 0
        /\ pays[i].amount = pays[i].info.capAmount - pays[i].info.used
        /\ pays[i].amount < (Usd(1000) \div 100) * 3

(***************************************************************************)
(* C9: for every credited reward, the staker's stake_reward credit plus    *)
(* the Power Pass-Up payments made for it are at most the reward's harvest *)
(* plus core.                                                              *)
(***************************************************************************)
C9_CreditsWithinReward ==
    \A id \in DOMAIN stake_rewards :
        stake_rewards[id].status = "credited" =>
            SumTx(transactions,
                  {k \in DOMAIN transactions :
                      k[3] = id /\ k[1] \in {"stake_reward", "power_passup"}})
                <= stake_rewards[id].harvest_reward + stake_rewards[id].core_reward

(***************************************************************************)
(* Overlapping invocations of a daily batch                                *)
(***************************************************************************)

\* The two cron processes of the scenario.
Procs == {1, 2}

InitJobRace ==
    /\ BatchTables
    /\ pc = [p \in Procs |-> "idle"]
    /\ local = [p \in Procs |-> [job |-> "none", date |-> 0]]

\* A batch is invoked: JobRun.getStatus and the skip guard.
BatchCheck(p, jobName) ==
    /\ pc[p] = "idle"
    /\ IF AlreadyRan(job_runs, jobName, today)
       THEN /\ ret' = [op |-> jobName, skipped |-> TRUE, throws |-> FALSE, created |-> 0]
            /\ UNCHANGED procVars
       ELSE /\ pc' = [pc EXCEPT ![p] = "start"]
            /\ local' = [local EXCEPT ![p] = [job |-> jobName, date |-> today]]
            /\ UNCHANGED ret
    /\ UNCHANGED <<placementVars, ledgerVars, job_runs, today, pays>>

\* await JobRun.start(...): its result is not looked at.
BatchStart(p) ==
    /\ pc[p] = "start"
    /\ job_runs' = JobStart(job_runs, local[p].job, local[p].date)
    /\ pc' = [pc EXCEPT ![p] = "body"]
    /\ UNCHANGED <<placementVars, ledgerVars, today, pays, ret, local>>

\* The batch body, taken as one step.
BatchRunBody(p) ==
    LET body == BatchBody(local[p].job, DB, local[p].date)
    IN  /\ pc[p] = "body"
        /\ Commit(body.db)
        /\ pc' = [pc EXCEPT ![p] = IF body.throws THEN "failed" ELSE "finish"]
        /\ ret' = [op |-> local[p].job, skipped |-> FALSE, throws |-> body.throws,
                   created |-> body.rewards_created]
        /\ UNCHANGED <<placementVars, job_runs, today, pays, local>>

\* JobRun.finish(success) of the batch, then that of its cron script for the date
\* the script reads after the batch returned.
BatchFinish(p) ==
    /\ pc[p] = "finish"
    /\ job_runs' = JobFinish(JobFinish(job_runs, local[p].job, local[p].date, "success"),
                             local[p].job, today, "success")
    /\ pc' = [pc EXCEPT ![p] = "idle"]
    /\ UNCHANGED <<placementVars, ledgerVars, today, pays, ret, local>>

\* The catch of the cron script: JobRun.finish(failed).
BatchFail(p) ==
    /\ pc[p] = "failed"
    /\ job_runs' = JobFinish(job_runs, local[p].job, today, "failed")
    /\ pc' = [pc EXCEPT ![p] = "idle"]
    /\ UNCHANGED <<placementVars, ledgerVars, today, pays, ret, local>>

NextJobRace ==
    \/ \E p \in Procs, jobName \in Jobs : BatchCheck(p, jobName)
    \/ \E p \in Procs : BatchStart(p)
    \/ \E p \in Procs : BatchRunBody(p)
    \/ \E p \in Procs : BatchFinish(p)
    \/ \E p \in Procs : BatchFail(p)
    \/ \E amount \in StakeAmounts : CreateStake(2, amount)
    \/ NextDay

SpecJobRace == InitJobRace /\ [][NextJobRace]_vars

(***************************************************************************)
(* C3: of two overlapping invocations of the same daily batch for the same *)
(* date, at most one gets past JobRun.start and executes the batch body.   *)
(***************************************************************************)
PastStart(p) == pc[p] \in {"body", "finish", "failed"}

C3_OneRunsBody ==
    \A p, q \in Procs :
        (p # q /\ PastStart(p) /\ PastStart(q))
            => (local[p].job # local[q].job \/ local[p].date # local[q].date)

(***************************************************************************)
(* Two overlapping Power Pass-Up distributions to one recipient            *)
(***************************************************************************)

\* Participants 2 and 3, both sponsored by 1, staked first; 1 then staked USD 25.
\* A reward of each of the two stakes is being credited in its own transaction,
\* and the pass-up of each has participant 1 as its only upline.
CapRaceRecipient == 1

\* The core amount passed up, by the stake it comes from: 0.5% of USD 2000,
\* 0.7% of USD 4000.
PassUpSources ==
    {[amount |-> Usd(2000), pack |-> "pulse", core |-> Usd(10)],
     [amount |-> Usd(4000), pack |-> "charge", core |-> Usd(28)]}

\* Rank percents of the recipient.
CapRaceRanks == {15, 25, 55, 100}

NoCapInfo == [capAmount |-> 0, maxPercent |-> 0, available |-> 0, used |-> 0]

InitCapRace ==
    /\ users = 1..3
    /\ is_verified = [u \in 1..3 |-> TRUE]
    /\ genealogy = SubSeq(IncentiveGenealogy, 1, 3)
    /\ stake_rewards = <<>>
    /\ wallets = <<0, 0, 0>>
    /\ transactions = <<>>
    /\ \E r \in CapRaceRanks :
           user_ranks = [u \in 1..3 |-> IF u = CapRaceRecipient THEN r ELSE 0]
    /\ team_cycles = <<>>
    /\ deposits = <<>>
    /\ NoJobs
    /\ ret = [op |-> "init"]
    /\ pc = [p \in Procs |-> "clamp"]
    /\ \E src \in [Procs -> PassUpSources] :
           /\ stakes = <<NewStakeRow(2, src[1].pack, src[1].amount),
                         NewStakeRow(3, src[2].pack, src[2].amount),
                         NewStakeRow(CapRaceRecipient, "spark", Usd(25))>>
           /\ team_volumes = [u \in {CapRaceRecipient} |->
                                 [NewVolumeRow EXCEPT !.left_volume = src[1].amount,
                                                      !.right_volume = src[2].amount]]
           /\ local = [p \in Procs |->
                          [origin |-> p + 1, coreAmount |-> src[p].core,
                           referenceId |-> RewardId(p, 0), sponsorId |-> NULL,
                           earned |-> 0, allowed |-> 0, info |-> NoCapInfo]]

\* The amount the wallet increment and the transaction row of a distribution
\* carry: the amount its clamp allowed.
CreditedAmount_Reclamped(c, d, userId, allowed) ==
    ClampAllowed(allowed, getCapInfo(c, d, userId))

CreditedAmount(c, d, userId, allowed) == allowed

\* distributePowerPassUp up to the return of RewardCap.clampIncentive for its
\* first upline.
PassUpClamp(p) ==
    LET chain == getSponsorChain(DB, local[p].origin, 9)
        sponsorId == Head(chain)
        sponsorRankPercent == getUserRankPercent(DB, sponsorId)
        earnedAmount == (sponsorRankPercent * local[p].coreAmount) \div 100
        cl == clampIncentive(DB, DB, sponsorId, earnedAmount)
    IN  /\ pc[p] = "clamp"
        /\ IF chain = <<>> \/ sponsorRankPercent <= 0 \/ earnedAmount <= 0
           THEN /\ pc' = [pc EXCEPT ![p] = "done"]
                /\ UNCHANGED local
           ELSE /\ pc' = [pc EXCEPT ![p] = "credit"]
                /\ local' = [local EXCEPT ![p].sponsorId = sponsorId,
                                          ![p].earned = earnedAmount,
                                          ![p].allowed = cl.allowed,
                                          ![p].info = cl.info]
        /\ UNCHANGED <<placementVars, ledgerVars, job_runs, today, pays, ret>>

\* distributePowerPassUp from the return of the clamp: the wallet increment and
\* the transaction row, then the commit.
PassUpCredit(p) ==
    LET amount == CreditedAmount(DB, DB, local[p].sponsorId, local[p].allowed)
    IN  /\ pc[p] = "credit"
        /\ IF amount > 0
           THEN Commit(CreditIncentive(DB, local[p].sponsorId, "power_passup",
                                       local[p].referenceId, amount, today))
           ELSE UNCHANGED ledgerVars
        /\ pc' = [pc EXCEPT ![p] = "done"]
        /\ UNCHANGED <<placementVars, job_runs, today, pays, ret, local>>

NextCapRace ==
    \/ \E p \in Procs : PassUpClamp(p)
    \/ \E p \in Procs : PassUpCredit(p)

SpecCapRace == InitCapRace /\ [][NextCapRace]_vars

PassUpPaid(userId, referenceId) ==
    LET key == <<"power_passup", userId, referenceId, today>>
    IN  IF key \in DOMAIN transactions THEN transactions[key] ELSE 0

(***************************************************************************)
(* C7: a distribution is credited what its clamp allowed against the used  *)
(* total it read, whatever was credited to the same participant between    *)
(* its clamp and its credit; once two overlapping distributions are both   *)
(* done the participant's incentive total is the sum of the two, which can *)
(* lie above capAmount.                                                    *)
(***************************************************************************)
C7_StaleClampCredited ==
    LET capAmount == getCapInfo(DB, DB, CapRaceRecipient).capAmount
        StaleAllowed(p) ==
            IF capAmount - local[p].info.used <= 0 THEN 0
            ELSE Min(local[p].earned, capAmount - local[p].info.used)
    IN  /\ \A p \in Procs :
               pc[p] = "done" =>
                   PassUpPaid(CapRaceRecipient, local[p].referenceId) = StaleAllowed(p)
        /\ (\A p \in Procs : pc[p] = "done") =>
               IncentiveUsed(transactions, CapRaceRecipient)
                   = StaleAllowed(1) + StaleAllowed(2)

C7_Witness ==
    /\ \A p \in Procs :
           /\ pc[p] = "done"
           /\ local[p].earned > 0
           /\ PassUpPaid(CapRaceRecipient, local[p].referenceId) = local[p].earned
    /\ local[1].info.used = local[2].info.used
    /\ IncentiveUsed(transactions, CapRaceRecipient)
           > getCapInfo(DB, DB, CapRaceRecipient).capAmount

(***************************************************************************)
(* One Power Pass-Up distribution along a sponsor line                     *)
(***************************************************************************)

\* The number of uplines of the origin in the pass-up scenario.
PassUpUplines == 5

\* A sponsor line of n participants: each is sponsored by, and placed under, the
\* participant registered just before it.
LineGenealogy(n) ==
    [u \in 1..n |->
        IF u = 1 THEN [parent_id |-> NULL, sponsor_id |-> NULL, position |-> "none"]
        ELSE [parent_id |-> u - 1, sponsor_id |-> u - 1, position |-> "left"]]

\* Rank percents the uplines hold.
PassUpRanks == {0, 5, 15, 25, 40, 70}

\* Core amounts passed up.
PassUpCores == {Usd(100), Usd(250)}

\* What an upline's USD 1000 stake leaves it under the cap: ample room, USD 10 of
\* room, or none because the stake has completed.
CapStates == {"ample", "tight", "unstaked"}

\* Every upline of the line holds a USD 1000 stake bought before its downline
\* joined.  One upline at most is short of cap room: its stake has completed, or
\* earlier incentives have used its cap up to the last USD 10.
InitPPU ==
    LET n == PassUpUplines + 1
    IN  /\ users = 1..n
        /\ is_verified = [u \in 1..n |-> TRUE]
        /\ genealogy = LineGenealogy(n)
        /\ stake_rewards = <<>>
        /\ \E r \in [1..PassUpUplines -> PassUpRanks] :
               user_ranks = [u \in 1..n |-> IF u = n THEN 0 ELSE r[u]]
        /\ \E short \in 0..PassUpUplines, capState \in CapStates \ {"ample"} :
               /\ stakes = [u \in 1..PassUpUplines |->
                               IF u = short /\ capState = "unstaked"
                               THEN [NewStakeRow(u, "pulse", Usd(1000)) EXCEPT
                                        !.total_rewards_earned = Usd(3000),
                                        !.status = "completed"]
                               ELSE NewStakeRow(u, "pulse", Usd(1000))]
               /\ transactions =
                      [k \in {<<"catalyst_bonus", u, 0, -1>> :
                                 u \in {v \in {short} : v # 0 /\ capState = "tight"}} |->
                          Usd(2990)]
               /\ wallets = [u \in 1..n |->
                                IF u = short /\ capState = "tight" THEN Usd(2990) ELSE 0]
        /\ team_volumes = <<>>
        /\ team_cycles = <<>>
        /\ deposits = <<>>
        /\ NoJobs
        /\ ret = [op |-> "init"]
        /\ NoProcs

\* distributePowerPassUp({originUserId, coreAmount, referenceId}) and its commit;
\* ret also carries the baseline the loop ended with.
DistributePowerPassUp(originUserId, coreAmount) ==
    LET res == distributePowerPassUp(DB, DB, <<>>, originUserId, coreAmount,
                                     RewardId(originUserId, today), today)
    IN  /\ ret.op = "init"
        /\ Commit(res.db)
        /\ pays' = res.pays
        /\ ret' = [op |-> "distributePowerPassUp", originUserId |-> originUserId,
                   coreAmount |-> coreAmount, allocations |-> res.allocations,
                   previousRankPercent |-> res.previousRankPercent]
        /\ UNCHANGED <<placementVars, job_runs, today, procVars>>

NextPPU == \E coreAmount \in PassUpCores : DistributePowerPassUp(PassUpUplines + 1, coreAmount)

SpecPPU == InitPPU /\ [][NextPPU]_vars

\* The incentive total and the cap of a participant before the operation under
\* test: rows of the initial state carry date -1.
UsedBefore(userId) ==
    SumTx(transactions, {k \in DOMAIN transactions :
                            k[1] \in INCENTIVE_TYPES /\ k[2] = userId /\ k[4] = 0 - 1})

\* The cap room a participant had before it was paid for reference referenceId
\* under an incentive type: its cap less every other incentive row it holds.
AvailableBefore(userId, type, referenceId) ==
    LET key == <<type, userId, referenceId, today>>
        paid == IF key \in DOMAIN transactions THEN transactions[key] ELSE 0
    IN  Max(0, getCapInfo(DB, DB, userId).capAmount
               - (IncentiveUsed(transactions, userId) - paid))

\* The upline at sponsor-chain distance k of the origin of a line.
UplineAt(originUserId, k) == originUserId - k

\* The highest rank percent among the k closest uplines, 0 for none.
RECURSIVE HighestRank(_, _)
HighestRank(originUserId, k) ==
    IF k = 0 THEN 0
    ELSE Max(user_ranks[UplineAt(originUserId, k)], HighestRank(originUserId, k - 1))

(***************************************************************************)
(* C8: in one Power Pass-Up distribution the upline at distance k, of rank *)
(* percent r, is paid min(coreAmount * (r - b)/100, its available cap)     *)
(* when r is above b, the highest rank percent among the k-1 closer        *)
(* uplines (0 for none), and nothing otherwise; this holds whether closer  *)
(* uplines were paid in full, clamped or zeroed by the cap.  The baseline  *)
(* ends at the highest rank percent of the chain.                          *)
(***************************************************************************)
C8_BaselineIsHighestSeen ==
    ret.op = "distributePowerPassUp" =>
        LET o == ret.originUserId
            Offer(k) ==
                LET r == user_ranks[UplineAt(o, k)]
                    b == HighestRank(o, k - 1)
                IN  IF r > b THEN (ret.coreAmount * (r - b)) \div 100 ELSE 0
        IN  /\ \A k \in 1..PassUpUplines :
                   PassUpPaid(UplineAt(o, k), RewardId(o, today))
                       = Min(Offer(k), AvailableBefore(UplineAt(o, k), "power_passup",
                                                       RewardId(o, today)))
            /\ ret.previousRankPercent = HighestRank(o, PassUpUplines)

\* Ranks 5, 25, 40, 15, 70 closest first, coreAmount 100, nobody short of room.
C8_Witness ==
    /\ ret.op = "distributePowerPassUp"
    /\ ret.coreAmount = Usd(100)
    /\ \A k \in 1..5 :
           /\ user_ranks[UplineAt(ret.originUserId, k)] = <<5, 25, 40, 15, 70>>[k]
           /\ PassUpPaid(UplineAt(ret.originUserId, k), RewardId(ret.originUserId, today))
                  = Usd(<<5, 20, 15, 0, 30>>[k])
    /\ Len(ret.allocations) = 4
    /\ ret.previousRankPercent = 70

\* A clamped and a zeroed upline ahead of one that is paid against the baseline
\* they set.
C8_WitnessShort ==
    /\ ret.op = "distributePowerPassUp"
    /\ \E k \in 1..(PassUpUplines - 1) :
           LET u == UplineAt(ret.originUserId, k)
               v == UplineAt(ret.originUserId, k + 1)
           IN  /\ user_ranks[u] > HighestRank(ret.originUserId, k - 1)
               /\ AvailableBefore(u, "power_passup", RewardId(ret.originUserId, today)) = 0
               /\ user_ranks[v] > user_ranks[u]
               /\ PassUpPaid(v, RewardId(ret.originUserId, today))
                      = (ret.coreAmount * (user_ranks[v] - user_ranks[u])) \div 100

(***************************************************************************)
(* One stake at the end of a sponsor line: the Catalyst walk               *)
(***************************************************************************)

\* The number of uplines of the staker in the Catalyst scenario: one more than
\* there are Catalyst levels.
CatalystUplines == 10

\* Amounts the staker stakes.
CatalystAmounts == {Usd(400), Usd(1000)}

\* Some uplines hold an active USD 1000 stake, bought before their downline
\* joined; one of them at most has used its cap up to the last USD 1.  The staker
\* holds USD 1000.
InitCatalyst ==
    LET n == CatalystUplines + 1
    IN  /\ users = 1..n
        /\ is_verified = [u \in 1..n |-> TRUE]
        /\ genealogy = LineGenealogy(n)
        /\ stake_rewards = <<>>
        /\ user_ranks = [u \in 1..n |-> 0]
        /\ \E staked \in SUBSET (1..CatalystUplines) :
           \E tight \in {0} \cup staked :
               /\ stakes = [u \in 1..CatalystUplines |->
                               IF u \in staked
                               THEN NewStakeRow(u, "pulse", Usd(1000))
                               ELSE [NewStakeRow(u, "pulse", Usd(1000)) EXCEPT
                                        !.total_rewards_earned = Usd(3000),
                                        !.status = "completed"]]
               /\ transactions =
                      [k \in {<<"catalyst_bonus", u, 0, -1>> : u \in {tight} \ {0}} |->
                          Usd(2999)]
               /\ wallets = [u \in 1..n |->
                                IF u = n THEN Usd(1000)
                                ELSE IF u = tight THEN Usd(2999) ELSE 0]
        /\ team_volumes = <<>>
        /\ team_cycles = <<>>
        /\ deposits = <<>>
        /\ NoJobs
        /\ ret = [op |-> "init"]
        /\ NoProcs

NextCatalyst ==
    \E amount \in CatalystAmounts : CreateStake(CatalystUplines + 1, amount)

SpecCatalyst == InitCatalyst /\ [][NextCatalyst]_vars

\* What a participant was paid as Catalyst bonus for a stake.
CatalystPaid(userId, stakeId) ==
    LET key == <<"catalyst_bonus", userId, stakeId, today>>
    IN  IF key \in DOMAIN transactions THEN transactions[key] ELSE 0

HoldsActiveStake(userId) ==
    \E i \in DOMAIN stakes : stakes[i].user_id = userId /\ stakes[i].status = "active"

\* 9%, 3%, 1%, 0.5%, 0.5%, 0.25%, 0.25%, 0.25%, 0.25%, in units of 0.01%
C10_Rates == <<900, 300, 100, 50, 50, 25, 25, 25, 25>>

(***************************************************************************)
(* C10: for a stake of amount A the upline at sponsor-chain distance k     *)
(* (1 to 9) is paid min(A * rate[k], its available cap) with rates 9%, 3%, *)
(* 1%, 0.5%, 0.5%, 0.25%, 0.25%, 0.25%, 0.25% if it holds an active stake  *)
(* and nothing if it does not, whichever closer uplines hold a stake; an   *)
(* upline beyond distance 9 is paid nothing.                               *)
(***************************************************************************)
C10_LevelRates ==
    (ret.op = "createStake" /\ ret.status = 200) =>
        LET o == stakes[ret.stakeId].user_id
            A == stakes[ret.stakeId].amount
        IN  \A k \in 1..CatalystUplines :
                CatalystPaid(UplineAt(o, k), ret.stakeId)
                    = IF k <= 9 /\ HoldsActiveStake(UplineAt(o, k))
                      THEN Min((A \div 10000) * C10_Rates[k],
                               AvailableBefore(UplineAt(o, k), "catalyst_bonus",
                                               ret.stakeId))
                      ELSE 0

\* A USD 1000 stake whose two closest uplines are the only ones staked, neither
\* short of cap room: they are paid 90 and 30.
C10_Witness ==
    /\ ret.op = "createStake"
    /\ ret.status = 200
    /\ stakes[ret.stakeId].amount = Usd(1000)
    /\ LET o == stakes[ret.stakeId].user_id
       IN  /\ \A k \in 1..CatalystUplines : HoldsActiveStake(UplineAt(o, k)) <=> k <= 2
           /\ UsedBefore(UplineAt(o, 1)) = 0
           /\ UsedBefore(UplineAt(o, 2)) = 0
           /\ CatalystPaid(UplineAt(o, 1), ret.stakeId) = Usd(90)
           /\ CatalystPaid(UplineAt(o, 2), ret.stakeId) = Usd(30)

(***************************************************************************)
(* Synergy settlement of one participant                                   *)
(***************************************************************************)

\* What each leg of participant 1 holds as volume and as carry at the start.
LegVolumes == {0, Usd(50), Usd(180), Usd(250)}

LegCarries == {0, Usd(70)}

\* daily_paid of participant 1 at the start: nothing, or the whole of its daily cap.
DailyPaidAtStart == {0, Usd(25)}

\* Incentives participant 1 holds at the start: none, or its whole cap of USD 50.
UsedAtStart == {0, Usd(50)}

\* Amounts participant 4 stakes in the settlement scenario.
LegStakeAmounts == {Usd(50), Usd(100)}

\* Participants 1, 2 and 3 hold a USD 25 stake each, active or completed; 2 and 3,
\* the placement children of 1, are verified or not.
InitSynergy ==
    /\ users = 1..4
    /\ genealogy = IncentiveGenealogy
    /\ \E v \in [{2, 3} -> BOOLEAN] :
           is_verified = [u \in 1..4 |-> IF u \in {2, 3} THEN v[u] ELSE TRUE]
    /\ \E active \in [1..3 -> BOOLEAN] :
           stakes = [u \in 1..3 |->
                        IF active[u] THEN NewStakeRow(u, "spark", Usd(25))
                        ELSE [NewStakeRow(u, "spark", Usd(25)) EXCEPT
                                 !.total_rewards_earned = Usd(50),
                                 !.status = "completed"]]
    /\ stake_rewards = <<>>
    /\ \E used \in UsedAtStart :
           /\ wallets = <<used, 0, 0, Usd(1000)>>
           /\ transactions = [k \in {x \in {<<"catalyst_bonus", 1, 2, -1>>} : used > 0}
                                  |-> used]
    /\ user_ranks = [u \in 1..4 |-> 0]
    /\ \E lv, rv \in LegVolumes, lc, rc \in LegCarries, paid \in DailyPaidAtStart :
           team_volumes = [u \in {1} |->
                              [left_volume |-> lv, right_volume |-> rv,
                               left_carry |-> lc, right_carry |-> rc,
                               daily_paid |-> paid, last_reset_date |-> 0]]
    /\ team_cycles = <<>>
    /\ deposits = <<>>
    /\ NoJobs
    /\ ret = [op |-> "init"]
    /\ NoProcs

\* Synergy.processUserCycles(userId), as processAllUsers calls it: no transaction,
\* so what it wrote before it threw stays written.
ProcessUserCycles(userId) ==
    LET res == processUserCycles(DB, userId, today)
    IN  /\ userId \in DOMAIN team_volumes
        /\ Commit(res.db)
        /\ pays' = <<>>
        /\ ret' = [op |-> "processUserCycles", userId |-> userId,
                   kind |-> res.ret.kind, cycles |-> res.ret.cycles,
                   reward |-> res.ret.reward, ineligible |-> res.ret.ineligible,
                   capReached |-> res.ret.capReached]
        /\ UNCHANGED <<placementVars, job_runs, today, procVars>>

NextSynergy ==
    \/ \E userId \in users : ProcessUserCycles(userId)
    \/ \E amount \in LegStakeAmounts : CreateStake(4, amount)
    \/ NextDay

SpecSynergy == InitSynergy /\ [][NextSynergy]_vars

\* What the legs of a participant hold, and what it was paid today.
LeftTotal(userId) == team_volumes[userId].left_volume + team_volumes[userId].left_carry

RightTotal(userId) == team_volumes[userId].right_volume + team_volumes[userId].right_carry

DailyPaidToday(userId) ==
    IF team_volumes[userId].last_reset_date = today
    THEN team_volumes[userId].daily_paid ELSE 0

\* A verified placement child with an active stake on a side.
QualifiedChildOn(userId, side) ==
    \E ch \in DOMAIN genealogy :
        /\ genealogy[ch].parent_id = userId
        /\ genealogy[ch].position = side
        /\ is_verified[ch]
        /\ HoldsActiveStake(ch)

CyclesOf(userId) == Min(LeftTotal(userId), RightTotal(userId)) \div Usd(100)

\* Participant 1 holds a spark pack of USD 25: rate 5%, USD 5 a cycle.
C11_Settles ==
    LET c == CyclesOf(1)
    IN  (/\ ProcessUserCycles(1)
         /\ HoldsActiveStake(1)
         /\ QualifiedChildOn(1, "left") /\ QualifiedChildOn(1, "right")
         /\ LeftTotal(1) >= Usd(100) /\ RightTotal(1) >= Usd(100)
         /\ DailyPaidToday(1) + c * Usd(5) <= Usd(25)
         /\ IncentiveUsed(transactions, 1) + c * Usd(5) <= Usd(50))
        => /\ wallets'[1] = wallets[1] + c * Usd(5)
           /\ team_volumes'[1].left_volume = 0
           /\ team_volumes'[1].right_volume = 0
           /\ team_volumes'[1].left_carry = LeftTotal(1) - c * Usd(100)
           /\ team_volumes'[1].right_carry = RightTotal(1) - c * Usd(100)

(***************************************************************************)
(* C11: a settlement of an eligible participant with an active pack, both  *)
(* leg totals at least 100 and neither cap binding pays                    *)
(* c = floor(min(leftTotal, rightTotal)/100) cycles, c * 100 * rate, and   *)
(* leaves both volumes 0 and each carry at its leg total less 100c.        *)
(***************************************************************************)
C11_CyclesPaid == [][C11_Settles]_vars

\* The row the claims describe after a flush: both volumes 0, nothing carried on
\* the weaker leg, the difference carried on the stronger.
FlushedAsDescribed(userId) ==
    LET l == LeftTotal(userId)
        r == RightTotal(userId)
    IN  /\ team_volumes'[userId].left_volume = 0
        /\ team_volumes'[userId].right_volume = 0
        /\ team_volumes'[userId].left_carry = IF l <= r THEN 0 ELSE l - r
        /\ team_volumes'[userId].right_carry = IF l <= r THEN r - l ELSE 0

C12_Settles ==
    (/\ ProcessUserCycles(1)
     /\ HoldsActiveStake(1)
     /\ QualifiedChildOn(1, "left") /\ QualifiedChildOn(1, "right")
     /\ LeftTotal(1) >= Usd(100) /\ RightTotal(1) >= Usd(100)
     /\ DailyPaidToday(1) + Usd(5) <= Usd(25)
     /\ IncentiveUsed(transactions, 1) >= Usd(50))
    => /\ wallets' = wallets
       /\ transactions' = transactions
       /\ FlushedAsDescribed(1)

(***************************************************************************)
(* C12: when the daily cap allows a cycle but the shared Reward Cap leaves *)
(* nothing to pay, the settlement pays nothing and flushes: both volumes   *)
(* 0, the weaker leg's carry 0, the stronger leg's carry stronger - weaker.*)
(***************************************************************************)
C12_ClampedToZeroFlushes == [][C12_Settles]_vars

\* A settlement of participant 1 whose remaining daily cap allows no cycle flushes
\* and pays nothing.
C13_Flushes ==
    (/\ ProcessUserCycles(1)
     /\ HoldsActiveStake(1)
     /\ QualifiedChildOn(1, "left") /\ QualifiedChildOn(1, "right")
     /\ LeftTotal(1) >= Usd(100) /\ RightTotal(1) >= Usd(100)
     /\ Usd(25) - DailyPaidToday(1) < Usd(5))
    => /\ wallets' = wallets
       /\ transactions' = transactions
       /\ team_cycles' = team_cycles
       /\ ret'.capReached
       /\ FlushedAsDescribed(1)

\* A settlement of participant 1 that gets as far as a payment or a flush found at
\* least 100 of volume on every leg that carried nothing.
C13_NeedsNewVolume ==
    (/\ ProcessUserCycles(1)
     /\ (wallets' # wallets \/ ret'.kind = "throws" \/ ret'.capReached))
    => /\ team_volumes[1].left_carry = 0 => team_volumes[1].left_volume >= Usd(100)
       /\ team_volumes[1].right_carry = 0 => team_volumes[1].right_volume >= Usd(100)

C14_Settles ==
    \A userId \in users :
        (/\ ProcessUserCycles(userId)
         /\ ~(QualifiedChildOn(userId, "left") /\ QualifiedChildOn(userId, "right")))
        => /\ wallets' = wallets
           /\ transactions' = transactions
           /\ team_cycles' = team_cycles
           /\ ret'.kind = "result"
           /\ ret'.reward = 0
           /\ ~ret'.capReached
           /\ team_volumes'[userId].left_volume = team_volumes[userId].left_volume
           /\ team_volumes'[userId].right_volume = team_volumes[userId].right_volume
           /\ team_volumes'[userId].left_carry = team_volumes[userId].left_carry
           /\ team_volumes'[userId].right_carry = team_volumes[userId].right_carry

VolumeGenealogy ==
    <<[parent_id |-> NULL, sponsor_id |-> NULL, position |-> "none"],
      [parent_id |-> 1, sponsor_id |-> 1, position |-> "left"],
      [parent_id |-> 1, sponsor_id |-> 1, position |-> "right"],
      [parent_id |-> 2, sponsor_id |-> 2, position |-> "left"],
      [parent_id |-> 2, sponsor_id |-> 2, position |-> "right"]>>

\* Five registered participants with USD 1000 each and nothing staked yet.
InitVolume ==
    /\ users = 1..5
    /\ is_verified = [u \in 1..5 |-> TRUE]
    /\ genealogy = VolumeGenealogy
    /\ stakes = <<>>
    /\ stake_rewards = <<>>
    /\ wallets = [u \in 1..5 |-> Usd(1000)]
    /\ transactions = <<>>
    /\ user_ranks = [u \in 1..5 |-> 0]
    /\ team_volumes = <<>>
    /\ team_cycles = <<>>
    /\ deposits = <<>>
    /\ NoJobs
    /\ ret = [op |-> "init"]
    /\ NoProcs

NextVolume == \E userId \in users, amount \in LegStakeAmounts : CreateStake(userId, amount)

SpecVolume == InitVolume /\ [][NextVolume]_vars

\* The participants placed in the tree at or below a participant.
RECURSIVE PlacedBelow(_, _)
PlacedBelow(userId, fuel) ==
    IF fuel = 0 THEN {userId}
    ELSE {userId} \cup UNION {PlacedBelow(ch, fuel - 1) :
                                 ch \in {x \in DOMAIN genealogy :
                                            genealogy[x].parent_id = userId}}

\* Is participant u in the subtree on a side of participant v?
InSubtreeOn(v, side, u) ==
    \E ch \in DOMAIN genealogy :
        /\ genealogy[ch].parent_id = v
        /\ genealogy[ch].position = side
        /\ u \in PlacedBelow(ch, Cardinality(DOMAIN genealogy))

\* The team_volumes row of a participant, a participant without row holding nothing.
VolumeRowOf(tv, userId) ==
    IF userId \in DOMAIN tv THEN [tv[userId] EXCEPT !.last_reset_date = NULL]
    ELSE NewVolumeRow

C15_Stakes ==
    \A u \in users, A \in LegStakeAmounts :
        (CreateStake(u, A) /\ ret'.status = 200)
        => \A v \in users :
               LET before == VolumeRowOf(team_volumes, v)
                   after == VolumeRowOf(team_volumes', v)
               IN  /\ after.left_volume = before.left_volume
                          + (IF InSubtreeOn(v, "left", u) THEN A ELSE 0)
                   /\ after.right_volume = before.right_volume
                          + (IF InSubtreeOn(v, "right", u) THEN A ELSE 0)
                   /\ after.left_carry = before.left_carry
                   /\ after.right_carry = before.right_carry
                   /\ after.daily_paid = before.daily_paid
                   /\ (~InSubtreeOn(v, "left", u) /\ ~InSubtreeOn(v, "right", u))
                          => /\ (v \in DOMAIN team_volumes') = (v \in DOMAIN team_volumes)
                             /\ after = before

(***************************************************************************)
(* C15: a stake of amount A by participant u adds exactly A to left_volume *)
(* of every participant whose left subtree holds u and to right_volume of  *)
(* every participant whose right subtree holds u, changes no volume of     *)
(* anyone else and no carry or daily_paid of anyone.                       *)
(***************************************************************************)
C15_VolumePropagation == [][C15_Stakes]_vars

\* Participant 5 staked last: USD 100 more on the right of 2 and on the left of 1,
\* which holds volume on both legs.
C15_Witness ==
    /\ ret.op = "createStake"
    /\ ret.status = 200
    /\ stakes[ret.stakeId].user_id = 5
    /\ stakes[ret.stakeId].amount = Usd(100)
    /\ 1 \in DOMAIN team_volumes /\ 2 \in DOMAIN team_volumes
    /\ team_volumes[2].right_volume = Usd(100)
    /\ team_volumes[2].left_volume = Usd(50)
    /\ team_volumes[1].left_volume = Usd(150)
    /\ team_volumes[1].right_volume = Usd(100)

(***************************************************************************)
(* Stake creation: refusal and rollback                                    *)
(***************************************************************************)

\* The steps of the db.transaction body of createStake, in the order of the code.
StakeSteps == <<"createWithTransaction", "updateBalance", "transactions.insert",
                "distributeCatalystBonus", "addVolumeToUplines">>

\* createStake: what the transaction has written when its step number `step` throws
\* (a Catalyst failure is taken at the first payment of the walk).
CreateStakePartial(c, userId, amount, date, step) ==
    LET packType == getPackForShares(amount \div Usd(25))
        stakeId == Len(c.stakes) + 1
        s1 == [c EXCEPT !.stakes = Append(@, NewStakeRow(userId, packType, amount))]
        s2 == [s1 EXCEPT !.wallets[userId] = @ - amount]
        s3 == [s2 EXCEPT !.transactions = InsertTx(@, userId, "stake", stakeId,
                                                   0 - amount, date)]
    IN  CASE step = 1 -> c
          [] step = 2 -> s1
          [] step = 3 -> s2
          [] step = 4 -> s3
          [] OTHER -> distributeCatalystBonus(c, s3, userId, amount, stakeId, date).db

\* The writes of the request stay in the tables although the handler threw.
RolledBack_KeepPartial(c, partial) == partial

\* db.transaction(handler) whose handler rejects: every write of createStake went
\* through trx, so the tables are those from before the transaction.
RolledBack(c, partial) == c

\* createStake(req) on a request that was accepted, with a step of the transaction
\* throwing (a database error, or the debit finding the balance gone): the catch
\* block answers 500 and triggerRankPromotionChain is not reached.
CreateStakeFails(userId, amount, step) ==
    /\ userId \in users
    /\ StakeCount(stakes, userId) < MaxStakesPerUser
    /\ CreateStakeAccepted(DB, userId, amount)
    /\ Commit(RolledBack(DB, CreateStakePartial(DB, userId, amount, today, step)))
    /\ pays' = <<>>
    /\ ret' = [op |-> "createStake", status |-> 500, stakeId |-> NULL,
               userId |-> userId, error |-> StakeSteps[step]]
    /\ UNCHANGED <<placementVars, job_runs, today, procVars>>

\* The balances participants 4 and 5 start with.
StakerBalances == {Usd(50), Usd(100)}

\* Five registered participants, nothing staked; 4 and 5 hold USD 50 or USD 100.
InitStake ==
    /\ users = 1..5
    /\ is_verified = [u \in 1..5 |-> TRUE]
    /\ genealogy = VolumeGenealogy
    /\ stakes = <<>>
    /\ stake_rewards = <<>>
    /\ \E b4 \in StakerBalances, b5 \in StakerBalances :
          wallets = [u \in 1..5 |-> IF u = 4 THEN b4 ELSE IF u = 5 THEN b5 ELSE Usd(1000)]
    /\ transactions = <<>>
    /\ user_ranks = [u \in 1..5 |-> 0]
    /\ team_volumes = <<>>
    /\ team_cycles = <<>>
    /\ deposits = <<>>
    /\ NoJobs
    /\ ret = [op |-> "init"]
    /\ NoProcs

NextStake ==
    \/ \E userId \in users, amount \in LegStakeAmounts : CreateStake(userId, amount)
    \/ \E userId \in users, amount \in LegStakeAmounts, step \in DOMAIN StakeSteps :
          CreateStakeFails(userId, amount, step)

SpecStake == InitStake /\ [][NextStake]_vars

C17_Rejected ==
    \A userId \in users, amount \in LegStakeAmounts :
        CreateStake(userId, amount) /\ wallets[userId] < amount
            => UNCHANGED ledgerVars /\ ret'.status = 400

C17_Failed ==
    \A userId \in users, amount \in LegStakeAmounts, step \in DOMAIN StakeSteps :
        CreateStakeFails(userId, amount, step)
            => UNCHANGED ledgerVars /\ ret'.status = 500

FailedRow(jobName) ==
    \E r \in job_runs : r.job_name = jobName /\ r.run_date = today /\ r.status = "failed"

\* C18: once the run of a job for a date has ended failed, an invocation of that
\* job for that date skips the batch body for as long as the row is there.
C18_FailedBlocksRerun ==
    [][\A jobName \in Jobs, viaScript \in BOOLEAN :
          RunDailyBatch(jobName, viaScript) /\ FailedRow(jobName) => ret'.skipped]_vars

\* The status of the job_runs row of the job for the current date in the next state.
EndedAs(jobName, statuses) ==
    \E r \in job_runs' :
        r.job_name = jobName /\ r.run_date = today /\ r.status \in statuses

\* C19: an invocation that got past the guard and started its run leaves the row
\* of (job, today) in success or failed when it ends, and in failed when the sweep
\* threw, for the cron script and for the HTTP entry alike.
C19_RunEndsSuccessOrFailed ==
    [][\A jobName \in Jobs, viaScript \in BOOLEAN :
          RunDailyBatch(jobName, viaScript) /\ ~ret'.skipped
              => /\ EndedAs(jobName, {"success", "failed"})
                 /\ ret'.throws => EndedAs(jobName, {"failed"})]_vars

\* Participant 3 staked USD 1000, participant 4 USD 25 and then participant 1
\* USD 25 (no upline held a stake when its downline staked, so no Catalyst bonus
\* was paid); the stakes of 3 and 4 left volume on the rows of 1 and of 2.
InitSweep ==
    /\ users = 1..4
    /\ is_verified = [u \in 1..4 |-> TRUE]
    /\ genealogy = IncentiveGenealogy
    /\ stakes = <<NewStakeRow(3, "pulse", Usd(1000)), NewStakeRow(4, "spark", Usd(25)),
                  NewStakeRow(1, "spark", Usd(25))>>
    /\ stake_rewards = <<>>
    /\ wallets = <<0, Usd(1000), 0, 0>>
    /\ transactions = <<>>
    /\ user_ranks = [u \in 1..4 |-> 0]
    /\ team_volumes =
          [u \in {1, 2} |->
              IF u = 1 THEN [NewVolumeRow EXCEPT !.left_volume = Usd(25),
                                                 !.right_volume = Usd(1000)]
              ELSE [NewVolumeRow EXCEPT !.left_volume = Usd(25)]]
    /\ team_cycles = <<>>
    /\ deposits = <<>>
    /\ NoJobs
    /\ ret = [op |-> "init"]
    /\ NoProcs

NextSweep ==
    \/ \E jobName \in Jobs, viaScript \in BOOLEAN : RunDailyBatch(jobName, viaScript)
    \/ \E amount \in StakeAmounts : CreateStake(2, amount)
    \/ NextDay

SpecSweep == InitSweep /\ [][NextSweep]_vars

\* C20: a synergy sweep that got past the guard processes every participant of
\* team_volumes even when one of them throws; a processed participant is known by
\* its row, which resetDailyIfNeeded leaves with last_reset_date = today.
C20_SweepContinues ==
    [][\A viaScript \in BOOLEAN :
          RunDailyBatch("synergy_flow", viaScript) /\ ~ret'.skipped
              => \A userId \in DOMAIN team_volumes :
                    team_volumes'[userId].last_reset_date = today]_vars

(***************************************************************************)
(* Sponsor chains with loops                                               *)
(***************************************************************************)

\* The sponsor line with the sponsor_id of its first participant set to r: NULL, the
\* participant itself (as register writes it) or a participant further down, which
\* closes a loop.
LoopGenealogy(n, r) ==
    [u \in 1..n |-> IF u = 1 THEN [LineGenealogy(n)[1] EXCEPT !.sponsor_id = r]
                    ELSE LineGenealogy(n)[u]]

\* Every participant but one, the origin, holds an active USD 1000 stake; every
\* participant holds USD 1000.  The rank percents rise along the line, towards its
\* first participant or away from it.
InitSponsor ==
    LET n == CatalystUplines + 1
    IN  /\ users = 1..n
        /\ is_verified = [u \in 1..n |-> TRUE]
        /\ \E r \in {NULL} \cup (1..n) : genealogy = LoopGenealogy(n, r)
        /\ \E o \in 1..n :
              stakes = [i \in 1..(n - 1) |->
                           NewStakeRow(IF i < o THEN i ELSE i + 1, "pulse", Usd(1000))]
        /\ stake_rewards = <<>>
        /\ wallets = [u \in 1..n |-> Usd(1000)]
        /\ transactions = <<>>
        /\ \E up \in BOOLEAN :
              user_ranks = [u \in 1..n |-> IF up THEN 5 * (n + 1 - u) ELSE 5 * u]
        /\ team_volumes = <<>>
        /\ team_cycles = <<>>
        /\ deposits = <<>>
        /\ NoJobs
        /\ ret = [op |-> "init"]
        /\ NoProcs

NextSponsor ==
    \/ \E userId \in users, amount \in CatalystAmounts : CreateStake(userId, amount)
    \/ \E userId \in users, coreAmount \in PassUpCores :
          DistributePowerPassUp(userId, coreAmount)

SpecSponsor == InitSponsor /\ [][NextSponsor]_vars

\* The participant whose stake or whose core reward the last distribution was for.
OriginOf(r) ==
    IF r.op = "createStake" THEN stakes[r.stakeId].user_id ELSE r.originUserId

\* The participants within k sponsor_id steps above a participant.
RECURSIVE SponsorSteps(_, _)
SponsorSteps(userId, k) ==
    IF k = 0 \/ SponsorOf(genealogy, userId) = NULL THEN {}
    ELSE {SponsorOf(genealogy, userId)}
         \cup SponsorSteps(SponsorOf(genealogy, userId), k - 1)

\* C21: whatever the sponsor_id data (a loop of any length, self-sponsorship), one
\* Catalyst distribution and one Power Pass-Up distribution pay at most 9 rows, only
\* to participants within 9 sponsor steps of the origin, and none of them twice.
C21_WalksBounded ==
    ret.op \in {"createStake", "distributePowerPassUp"}
        => /\ Len(pays) <= 9
           /\ \A i \in DOMAIN pays : pays[i].to \in SponsorSteps(OriginOf(ret), 9)
           /\ \A i, j \in DOMAIN pays : i # j => pays[i].to # pays[j].to

\* Participant 2 staked in the loop 2 -> 1 -> 3 -> 2: the walk paid 1 and 3, skipped
\* 2 itself (no stake yet when it was read) and stopped at 1, already visited.
C21_Witness ==
    /\ ret.op = "createStake"
    /\ ret.status = 200
    /\ stakes[ret.stakeId].user_id = 2
    /\ genealogy[1].sponsor_id = 3
    /\ Len(pays) = 2
    /\ pays[1].to = 1
    /\ pays[2].to = 3

(***************************************************************************)
(* Placement trees with loops                                              *)
(***************************************************************************)

\* The line with the parent_id of its first participant set to r: NULL, or a
\* participant further down, which closes a loop of parent pointers.
ParentLoopGenealogy(n, r) ==
    [u \in 1..n |->
        IF u = 1
        THEN [parent_id |-> r, sponsor_id |-> NULL,
              position |-> IF r = NULL THEN "none" ELSE "left"]
        ELSE LineGenealogy(n)[u]]

\* Five participants with USD 1000 each, nothing staked, in a line that is a tree
\* or that closes into a loop.
InitTreeLoop ==
    /\ users = 1..5
    /\ is_verified = [u \in 1..5 |-> TRUE]
    /\ \E r \in {NULL} \cup (2..5) : genealogy = ParentLoopGenealogy(5, r)
    /\ stakes = <<>>
    /\ stake_rewards = <<>>
    /\ wallets = [u \in 1..5 |-> Usd(1000)]
    /\ transactions = <<>>
    /\ user_ranks = [u \in 1..5 |-> 0]
    /\ team_volumes = <<>>
    /\ team_cycles = <<>>
    /\ deposits = <<>>
    /\ NoJobs
    /\ ret = [op |-> "init"]
    /\ NoProcs

NextTreeLoop == \E userId \in users, amount \in LegStakeAmounts : CreateStake(userId, amount)

SpecTreeLoop == InitTreeLoop /\ [][NextTreeLoop]_vars

\* C22: whatever the parent_id data, a stake request gets its response: the volume
\* propagation of Synergy.addVolumeToUplines ends after finitely many ancestors.
C22_PropagationEnds == ret.op = "createStake" => ret.status # NULL

(***************************************************************************)
(* Rank evaluation after registrations                                     *)
(***************************************************************************)

NextRank ==
    \/ \E referrer \in users \cup {NULL} : Register(referrer)
    \/ \E u \in users, flag \in BOOLEAN : SetVerified(u, flag)
    \/ \E userId \in users : AutoPromoteUser(userId)

SpecRank == InitPlacement /\ [][NextRank]_vars

\* C23: rank evaluation and auto-promotion return for every participant, a root
\* that registration made its own sponsor included.
C23_AutoPromoteReturns == ret.op = "autoPromoteUser" => ret.returns

(***************************************************************************)
(* The position search                                                     *)
(***************************************************************************)

\* The first node on the same-side spine below a node whose slot on that side
\* holds no row.
RECURSIVE FirstEmptyOnSpine(_, _, _)
FirstEmptyOnSpine(nodeId, side, fuel) ==
    IF isPositionAvailable(genealogy, nodeId, side) \/ fuel = 0 THEN nodeId
    ELSE FirstEmptyOnSpine(SetMin(SlotRows(genealogy, nodeId, side)), side, fuel - 1)

\* The slot the position search is described to return for a sponsor.
DescribedSlot(sponsorId) ==
    LET side == IF (DownlineCount(genealogy, {sponsorId}, MaxUsers) - 2) % 2 = 0
                THEN "left" ELSE "right"
    IN  IF isPositionAvailable(genealogy, sponsorId, "left")
        THEN [parentId |-> sponsorId, position |-> "left"]
        ELSE IF isPositionAvailable(genealogy, sponsorId, "right")
        THEN [parentId |-> sponsorId, position |-> "right"]
        ELSE [parentId |-> FirstEmptyOnSpine(sponsorId, side, MaxUsers),
              position |-> side]

\* C24: a registration under a sponsor is placed in the slot described (the
\* sponsor's left, else its right, else the first empty same-side slot down the
\* spine of the subtree chosen by the parity of the downline count less 2), and
\* that slot holds no row when the search returns it.
C24_SearchReturnsEmptySlot ==
    [][\A referrer \in users \cup {NULL} :
          Register(referrer) /\ ret'.parentId # NULL
              => /\ isPositionAvailable(genealogy, ret'.parentId, ret'.position)
                 /\ [parentId |-> ret'.parentId, position |-> ret'.position]
                        = DescribedSlot(ResolveSponsor(users, is_verified, referrer))]_vars

(***************************************************************************)
(* Registration when the position search throws                            *)
(***************************************************************************)

\* register(req) with a sponsor resolved and a query of
\* Genealogy.getNextAvailablePositionUnderSponsor failing: the search rethrows, the
\* call in register is not wrapped, and the catch block of register answers 500
\* before the transaction that inserts the user is opened.
RegisterSearchThrows(referrer) ==
    /\ Cardinality(users) < MaxUsers
    /\ ResolveSponsor(users, is_verified, referrer) # NULL
    /\ ret' = [op |-> "register", userId |-> NULL, parentId |-> NULL,
               position |-> "none"]
    /\ UNCHANGED <<placementVars, ledgerVars, job_runs, today, pays, procVars>>

NextRegister ==
    \/ \E referrer \in users \cup {NULL} : Register(referrer)
    \/ \E referrer \in users \cup {NULL} : RegisterSearchThrows(referrer)

SpecRegister == InitPlacement /\ [][NextRegister]_vars

\* C25: a registration whose position search throws still creates the participant,
\* as a root (no parent, no position).
C25_SearchErrorFallsBackToRoot ==
    [][\A referrer \in users \cup {NULL} :
          RegisterSearchThrows(referrer)
              => /\ ret'.userId \in users' \ users
                 /\ genealogy'[ret'.userId].parent_id = NULL
                 /\ genealogy'[ret'.userId].position = "none"]_vars

(***************************************************************************)
(* Team Cycle history                                                      *)
(***************************************************************************)

PendingOf(stakeId) ==
    {id \in DOMAIN stake_rewards :
        stake_rewards[id].stake_id = stakeId /\ stake_rewards[id].status = "pending"}

\* Every row keeps its status or leaves pending for credited or expired, and a row
\* dated before today is not credited.
C27_StatusMoves ==
    \A id \in DOMAIN stake_rewards :
        /\ id \in DOMAIN stake_rewards'
        /\ stake_rewards'[id].status # stake_rewards[id].status
              => /\ stake_rewards[id].status = "pending"
                 /\ stake_rewards'[id].status \in {"credited", "expired"}
        /\ stake_rewards'[id].status = "credited" /\ stake_rewards[id].status = "pending"
              => stake_rewards[id].reward_date >= today

\* A credit attempt expires the pending rewards of the stake dated before today,
\* and changes no wallet when the stake has no other pending reward.
C27_CreditExpires ==
    \A stakeId \in DOMAIN stakes :
        CreditPendingRewards(stakeId, FALSE, {})
            => /\ \A id \in PendingOf(stakeId) :
                     stake_rewards[id].reward_date < today
                         => stake_rewards'[id].status = "expired"
               /\ (\A id \in PendingOf(stakeId) : stake_rewards[id].reward_date < today)
                     => wallets' = wallets /\ transactions' = transactions

\* A core/harvest batch that runs its body leaves no pending reward dated before
\* its date.
C27_BatchExpires ==
    \A viaScript \in BOOLEAN :
        RunDailyBatch("core_harvest", viaScript) /\ ~ret'.skipped
            => \A id \in DOMAIN stake_rewards :
                  stake_rewards[id].reward_date < today
                      => stake_rewards'[id].status # "pending"

LadderGenealogy ==
    <<[parent_id |-> NULL, sponsor_id |-> NULL, position |-> "none"],
      [parent_id |-> 1, sponsor_id |-> 1, position |-> "left"],
      [parent_id |-> 1, sponsor_id |-> 1, position |-> "right"],
      [parent_id |-> 2, sponsor_id |-> 2, position |-> "left"]>>

\* Amounts a stake request carries here: below and above the pack values of the
\* first two ranks, and above the team volume of the second.
LadderAmounts == {Usd(25), Usd(500), Usd(5000)}

\* Four participants with USD 5000 each; participant 4 has staked nothing yet or
\* holds a completed stake of USD 1000.
InitLadder ==
    /\ users = 1..4
    /\ is_verified = [u \in 1..4 |-> TRUE]
    /\ genealogy = LadderGenealogy
    /\ \E done \in BOOLEAN :
          stakes = IF done
                   THEN <<[NewStakeRow(4, "pulse", Usd(1000)) EXCEPT
                              !.status = "completed",
                              !.total_rewards_earned = Usd(3000)]>>
                   ELSE <<>>
    /\ stake_rewards = <<>>
    /\ wallets = [u \in 1..4 |-> Usd(5000)]
    /\ transactions = <<>>
    /\ user_ranks = [u \in 1..4 |-> 0]
    /\ team_volumes = <<>>
    /\ team_cycles = <<>>
    /\ deposits = <<>>
    /\ NoJobs
    /\ ret = [op |-> "init"]
    /\ NoProcs

NextLadder ==
    \/ \E userId \in users, amount \in LadderAmounts : CreateStake(userId, amount)
    \/ \E userId \in users : AutoPromoteUser(userId)
    \/ \E userId \in {1, 2} : AdminSetUserRank(userId, 25)

SpecLadder == InitLadder /\ [][NextLadder]_vars

\* The store after a step, in the tables a rank evaluation and a promotion read.
StoreAfter ==
    [DB EXCEPT !.genealogy = genealogy', !.stakes = stakes', !.user_ranks = user_ranks']

\* After a promotion run that returns, the stored percent is the target percent of
\* the evaluation.
C28_StoresTarget ==
    \A userId \in users :
        /\ ret'.op = "autoPromoteUser" /\ ret'.userId = userId /\ ret'.returns
        /\ AutoPromoteUser(userId)
        => getUserRankPercent(StoreAfter, userId)
              = evaluateUserRank(StoreAfter, userId).targetPercent

\* A promotion run that directly follows one of the same participant reports
\* nothing and writes nothing.
C28_SecondChangesNothing ==
    \A userId \in users :
        /\ ret.op = "autoPromoteUser" /\ ret.userId = userId /\ ret.returns
        /\ ret'.op = "autoPromoteUser" /\ ret'.userId = userId
        /\ AutoPromoteUser(userId)
        => /\ ~ret'.promoted
           /\ ~ret'.demoted
           /\ UNCHANGED ledgerVars

RECURSIVE IsUnder(_, _, _)
\* Is userId below p in the sponsor tree, within fuel sponsor links?
IsUnder(userId, p, fuel) ==
    /\ fuel > 0
    /\ userId \in DOMAIN genealogy
    /\ genealogy[userId].sponsor_id # NULL
    /\ \/ genealogy[userId].sponsor_id = p
       \/ IsUnder(genealogy[userId].sponsor_id, p, fuel - 1)

RECURSIVE StakeTotal(_, _)
\* The sum of the amounts of the stakes with the given ids.
StakeTotal(ids, upTo) ==
    IF upTo = 0 THEN 0
    ELSE (IF upTo \in ids THEN stakes[upTo].amount ELSE 0) + StakeTotal(ids, upTo - 1)

\* The three measures of a participant, amounts in 1e-5 USD.
DirectCount(p) == Cardinality({u \in users : genealogy[u].sponsor_id = p})

ActiveStaked(p) ==
    StakeTotal({i \in DOMAIN stakes : stakes[i].user_id = p /\ stakes[i].status = "active"},
               Len(stakes))

DownlineStaked(p) ==
    StakeTotal({i \in DOMAIN stakes : IsUnder(stakes[i].user_id, p, Cardinality(users))},
               Len(stakes))

\* The ladder ranks all three of whose thresholds participant p meets.
RanksMet(p) ==
    {i \in DOMAIN RANK_LADDER :
        /\ DirectCount(p) >= RANK_LADDER[i].minDirects
        /\ ActiveStaked(p) >= Usd(RANK_LADDER[i].minPackValue)
        /\ DownlineStaked(p) >= Usd(RANK_LADDER[i].teamVolume)}

\* C29: the evaluation returns as target the highest of the 9 ladder ranks whose
\* minimum directs, minimum pack value and minimum team volume are all met by the
\* participant's direct referrals, active stake amounts and downline stake
\* amounts; a rank with a threshold unmet is never the target, and the target is
\* none with 0 percent when no rank qualifies.
C29_HighestRankMet ==
    /\ Len(RANK_LADDER) = 9
    /\ \A p \in users :
          LET e == evaluateUserRank(DB, p)
          IN  /\ RanksMet(p) = {} => e.targetRank = "none" /\ e.targetPercent = 0
              /\ RanksMet(p) # {}
                    => \E i \in RanksMet(p) :
                          /\ e.targetRank = RANK_LADDER[i].key
                          /\ e.targetPercent = RANK_LADDER[i].percent
                          /\ \A j \in RanksMet(p) :
                                RANK_LADDER[j].percent <= RANK_LADDER[i].percent
              /\ \A i \in DOMAIN RANK_LADDER :
                    e.targetRank = RANK_LADDER[i].key => i \in RanksMet(p)

\* Participant 1 has two direct referrals and a downline that staked USD 5000 or
\* more, one level further down, but holds USD 25 only: the second rank fails on
\* its pack value alone and the target is the first; participant 3 holds a stake
\* and has no referral, and no rank.
C29_Witness ==
    /\ DirectCount(1) = 2
    /\ ActiveStaked(1) = Usd(25)
    /\ DownlineStaked(1) >= Usd(5000)
    /\ \E i \in DOMAIN stakes : stakes[i].user_id = 4 /\ stakes[i].amount = Usd(5000)
    /\ evaluateUserRank(DB, 1).targetRank = "spark"
    /\ ActiveStaked(3) > 0
    /\ evaluateUserRank(DB, 3).targetRank = "none"

(***************************************************************************)
(* The reward cap                                                          *)
(***************************************************************************)

\* The stakes participant 2 may hold at the start, oldest first.
CapPacks == {[pack |-> "spark", amount |-> Usd(25)],
             [pack |-> "pulse", amount |-> Usd(250)],
             [pack |-> "charge", amount |-> Usd(2500)]}

CapHoldings == {<<>>} \cup {<<a>> : a \in CapPacks} \cup {<<a, b>> : a, b \in CapPacks}

\* What participant 2 has received as Catalyst bonus before: nothing, less than the
\* cap of a spark stake, or more than it (earned under a stake since completed).
CapUsedAtStart == {0, Usd(40), Usd(60)}

\* Amounts the stake requests of participants 1 and 3 carry.
CapStakeAmounts == {Usd(25), Usd(2500)}

\* Three participants in a sponsor chain; participant 2 holds up to two stakes, the
\* older one active or completed, and may have received Catalyst bonus before.
InitCap ==
    /\ users = 1..3
    /\ is_verified = [u \in 1..3 |-> TRUE]
    /\ genealogy = LedgerGenealogy
    /\ \E h \in CapHoldings, done \in BOOLEAN :
          stakes = [i \in DOMAIN h |->
                       [NewStakeRow(2, h[i].pack, h[i].amount) EXCEPT
                           !.status = IF done /\ i = 1 THEN "completed" ELSE "active"]]
    /\ stake_rewards = <<>>
    /\ \E used \in CapUsedAtStart :
          /\ wallets = <<Usd(2500), used, Usd(2500)>>
          /\ transactions = IF used = 0 THEN <<>>
                            ELSE [k \in {<<"catalyst_bonus", 2, 3, -1>>} |-> used]
    /\ user_ranks = [u \in 1..3 |-> 0]
    /\ team_volumes = <<>>
    /\ team_cycles = <<>>
    /\ deposits = <<>>
    /\ NoJobs
    /\ ret = [op |-> "init"]
    /\ NoProcs

NextCap ==
    \E userId \in {1, 3}, amount \in CapStakeAmounts : CreateStake(userId, amount)

SpecCap == InitCap /\ [][NextCap]_vars

\* The tiers, highest priority first.
TierOrder == <<"quantum", "charge", "pulse", "spark">>

\* The highest-priority tier among the active stakes of p, "none" without one.
TopTier(p) ==
    LET held == {k \in DOMAIN TierOrder :
                    \E i \in DOMAIN stakes : /\ stakes[i].user_id = p
                                             /\ stakes[i].status = "active"
                                             /\ stakes[i].pack_type = TierOrder[k]}
    IN  IF held = {} THEN "none" ELSE TierOrder[SetMin(held)]

\* Proposed amounts a clamp is asked about.
ClampProbes == {0 - Usd(1), 0, Usd(10), Usd(60), Usd(20000)}

clampIncentiveWrites_Reserves(d, userId, amount) ==
    [d EXCEPT !.transactions =
        InsertTx(@, userId, "catalyst_bonus", 0, clampIncentive(d, d, userId, amount).allowed,
                 0)]

\* RewardCap.clampIncentive(userId, amount, trx): the store it leaves behind.  It
\* and getCapInfo issue two SELECTs and no write.
clampIncentiveWrites(d, userId, amount) == d

\* RewardCap.clampIncentive(userId, amount), called on its own.
ClampIncentive(userId, amount) ==
    /\ userId \in users
    /\ Commit(clampIncentiveWrites(DB, userId, amount))
    /\ pays' = <<>>
    /\ ret' = [op |-> "clampIncentive", userId |-> userId, amount |-> amount,
               allowed |-> clampIncentive(DB, DB, userId, amount).allowed]
    /\ UNCHANGED <<placementVars, job_runs, today, procVars>>

NextClamp ==
    \/ \E userId \in {1, 3}, amount \in CapStakeAmounts : CreateStake(userId, amount)
    \/ \E userId \in users, amount \in ClampProbes : ClampIncentive(userId, amount)

SpecClamp == InitCap /\ [][NextClamp]_vars

PackAmounts == {Usd(10), Usd(30), Usd(249), Usd(250), Usd(2500)}

NextPacks ==
    \E userId \in users, amount \in PackAmounts : CreateStake(userId, amount)

SpecPacks == InitCap /\ [][NextPacks]_vars

\* The share-count bands of the tiers; 0 for no upper end.
TierBands == [spark   |-> <<1, 9>>,   pulse   |-> <<10, 99>>,
              charge  |-> <<100, 999>>, quantum |-> <<1000, 0>>]

InBand(shares, tier) ==
    /\ shares >= TierBands[tier][1]
    /\ TierBands[tier][2] = 0 \/ shares <= TierBands[tier][2]

\* Every row of stakes carries the share count of its amount, the tier of that
\* count, and the rate and limit of the tier.
C32_RowsInBand ==
    \A i \in DOMAIN stakes :
        /\ stakes[i].shares = stakes[i].amount \div Usd(25)
        /\ stakes[i].shares >= 1
        /\ stakes[i].pack_type \in DOMAIN TierBands
        /\ InBand(stakes[i].shares, stakes[i].pack_type)
        /\ stakes[i].daily_roi_rate = ENERGY_PACKS[stakes[i].pack_type].dailyRoiRate
        /\ stakes[i].max_reward_limit = ENERGY_PACKS[stakes[i].pack_type].maxRewardLimit

\* A request for less than one share, or for a count in no band, creates no stake.
C32_OutOfBandRefused ==
    \A userId \in users, amount \in PackAmounts :
        /\ ret'.op = "createStake"
        /\ CreateStake(userId, amount)
        /\ \/ amount \div Usd(25) < 1
           \/ \A tier \in DOMAIN TierBands : ~InBand(amount \div Usd(25), tier)
        => stakes' = stakes /\ ret'.status = 400

RECURSIVE getDownlineInTransaction(_, _, _, _)
getDownlineInTransaction(g, act, frontier, fuel) ==
    IF frontier = {} \/ fuel = 0 THEN 0
    ELSE LET children == {u \in DOMAIN g : g[u].parent_id \in frontier /\ act[u]}
         IN  Cardinality(children) + getDownlineInTransaction(g, act, children, fuel - 1)

\* The while(true) loop of findAvailablePositionBreadthFirstInTransaction; the
\* child of a taken slot is looked up joined with users.is_active.
RECURSIVE SpineWalkInTransaction(_, _, _, _, _)
SpineWalkInTransaction(g, act, currentNodeId, side, fuel) ==
    IF isPositionAvailable(g, currentNodeId, side) \/ fuel = 0
    THEN [parentId |-> currentNodeId, position |-> side]
    ELSE LET child == VerifiedChild(g, act, currentNodeId, side)
         IN  IF child = NULL
             THEN [parentId |-> currentNodeId, position |-> side]
             ELSE SpineWalkInTransaction(g, act, child, side, fuel - 1)

\* findAvailablePositionBreadthFirstInTransaction(trx, sponsorId, subtreePosition)
findAvailablePositionBreadthFirstInTransaction(g, act, sponsorId, side) ==
    LET subtreeRoot == VerifiedChild(g, act, sponsorId, side)
    IN  IF subtreeRoot = NULL
        THEN [parentId |-> sponsorId, position |-> side]
        ELSE SpineWalkInTransaction(g, act, subtreeRoot, side, MaxUsers)

\* getNextAvailablePositionUnderSponsorInTransaction(trx, sponsorId)
getNextAvailablePositionUnderSponsorInTransaction(g, act, sponsorId) ==
    IF isPositionAvailable(g, sponsorId, "left")
    THEN [parentId |-> sponsorId, position |-> "left"]
    ELSE IF isPositionAvailable(g, sponsorId, "right")
    THEN [parentId |-> sponsorId, position |-> "right"]
    ELSE LET downlineCount == getDownlineInTransaction(g, act, {sponsorId}, MaxUsers) - 2
         IN  IF downlineCount % 2 = 0
             THEN findAvailablePositionBreadthFirstInTransaction(g, act, sponsorId, "left")
             ELSE findAvailablePositionBreadthFirstInTransaction(g, act, sponsorId, "right")

\* regeneratePlacement: the sponsor map read from the rows of genealogy (a sponsor
\* other than the participant itself), or the chain of creation order when the
\* rows name no sponsor at all; NULL for a participant without entry.
SponsorMap(g, us) ==
    LET named == {u \in DOMAIN g : g[u].sponsor_id # NULL /\ g[u].sponsor_id # u}
    IN  [u \in us |-> IF named # {}
                      THEN (IF u \in named THEN g[u].sponsor_id ELSE NULL)
                      ELSE (IF u = SetMin(us) THEN NULL
                            ELSE CHOOSE v \in us : v < u /\ \A w \in us : w < u => w <= v)]

\* regeneratePlacement: usersToPlace, the active participants in creation order and
\* then the inactive ones.
RECURSIVE InOrder(_)
InOrder(S) == IF S = {} THEN <<>> ELSE <<SetMin(S)>> \o InOrder(S \ {SetMin(S)})

UsersToPlace(us, act) == InOrder({u \in us : act[u]}) \o InOrder({u \in us : ~act[u]})

\* regeneratePlacement: the loop of the transaction over usersToPlace from index i,
\* on the rows g inserted so far.
RECURSIVE PlaceUsers(_, _, _, _, _)
PlaceUsers(g, act, sponsorMap, order, i) ==
    IF i > Len(order) THEN g
    ELSE LET user == order[i]
             sponsorId == sponsorMap[user]
             slot == IF sponsorId # NULL
                     THEN getNextAvailablePositionUnderSponsorInTransaction(g, act,
                                                                            sponsorId)
                     ELSE [parentId |-> NULL, position |-> "none"]
             row == [parent_id |-> slot.parentId, sponsor_id |-> sponsorId,
                     position |-> slot.position]
         IN  PlaceUsers([u \in DOMAIN g \cup {user} |-> IF u = user THEN row ELSE g[u]],
                        act, sponsorMap, order, i + 1)

\* regeneratePlacement(false, false, false).  users.is_active is not kept in the
\* model's state: the script reads it as act, any value of which the admin user
\* update can have stored.
RegeneratePlacement(act) ==
    /\ genealogy' = PlaceUsers(<<>>, act, SponsorMap(genealogy, users),
                               UsersToPlace(users, act), 1)
    /\ ret' = [op |-> "regeneratePlacement", active |-> act]
    /\ UNCHANGED <<users, is_verified, ledgerVars, job_runs, today, pays, procVars>>

NextRegen ==
    \/ \E referrer \in users \cup {NULL} : Register(referrer)
    \/ \E act \in [users -> BOOLEAN] : RegeneratePlacement(act)

SpecRegen == InitPlacement /\ [][NextRegen]_vars

\* C33: the regeneration script places each participant with the rule of
\* registration: for every tree and sponsor, and whatever the active flags are, its
\* in-transaction search returns the slot the registration search returns.
C33_RegenerationSearchMatches ==
    \A sponsorId \in users, act \in [users -> BOOLEAN] :
        getNextAvailablePositionUnderSponsorInTransaction(genealogy, act, sponsorId)
            = getNextAvailablePositionUnderSponsor(genealogy, is_verified, sponsorId)

(***************************************************************************)
(* Power Pass-Up and the staker's own rank                                 *)
(***************************************************************************)

RECURSIVE BaselineBefore(_, _, _)
\* The highest rank percent among the sponsors between a participant and its
\* upline u, 0 for none.
BaselineBefore(current, u, fuel) ==
    LET sponsorId == SponsorOf(genealogy, current)
    IN  IF fuel = 0 \/ sponsorId = NULL \/ sponsorId = u THEN 0
        ELSE Max(getUserRankPercent(DB, sponsorId), BaselineBefore(sponsorId, u, fuel - 1))

\* The override percent of upline u on a reward of staker.
OverridePercent(staker, u) ==
    getUserRankPercent(DB, u) - BaselineBefore(staker, u, Cardinality(users))

\* C34: when a stake reward is credited, the Power Pass-Up payment of each upline,
\* before the cap clamp, is its override percent of the original core amount of
\* the reward, whatever the rank percent of the staker is.
C34_PassUpFromOriginalCore ==
    [][\A stakeId \in DOMAIN stakes :
          /\ ret'.op = "creditPendingRewards" /\ ret'.stakeId = stakeId
          /\ CreditPendingRewards(stakeId, FALSE, {})
          => \A i \in DOMAIN pays' :
                pays'[i].type = "power_passup"
                    => \E id \in DOMAIN stake_rewards :
                          /\ stake_rewards[id].stake_id = stakeId
                          /\ stake_rewards[id].status = "pending"
                          /\ stake_rewards'[id].status = "credited"
                          /\ pays'[i].amount
                                = Min((OverridePercent(stakes[stakeId].user_id, pays'[i].to)
                                          * stake_rewards[id].core_reward) \div 100,
                                      pays'[i].info.available)]_vars

(***************************************************************************)
(* Overlapping calls of creditPendingRewards                               *)
(***************************************************************************)

\* Rank percents of participant 1 in the scenario.
CreditRaceRanks == {0, 25}

\* Participant 1 holds a USD 1000 stake and a rank percent; its referral 2 holds a
\* USD 25 stake.  Two callers (the holder's claim, the sweep of the batch) are
\* about to credit the rewards of a stake.
InitCreditRace ==
    /\ users = 1..3
    /\ is_verified = [u \in 1..3 |-> TRUE]
    /\ genealogy = LedgerGenealogy
    /\ stakes = <<NewStakeRow(2, "spark", Usd(25)), NewStakeRow(1, "pulse", Usd(1000))>>
    /\ stake_rewards = <<>>
    /\ wallets = <<0, 0, 0>>
    /\ transactions = <<>>
    /\ \E r \in CreditRaceRanks : user_ranks = [u \in 1..3 |-> IF u = 1 THEN r ELSE 0]
    /\ team_volumes = [u \in {1} |-> [NewVolumeRow EXCEPT !.left_volume = Usd(25)]]
    /\ team_cycles = <<>>
    /\ deposits = <<>>
    /\ NoJobs
    /\ ret = [op |-> "init"]
    /\ pc = [p \in Procs |-> "idle"]
    /\ local = [p \in Procs |-> [stakeId |-> NULL, snap |-> <<>>]]

\* creditPendingRewards(stakeId) up to the two reads that open its transaction:
\* the pending rewards and the stake row, plain SELECTs that lock nothing.  The
\* later reads of the transaction see the tables as they were here (snap).
CreditSelect(p, stakeId) ==
    /\ pc[p] = "idle"
    /\ stakeId \in DOMAIN stakes
    /\ IF PendingRewards(DB, stakeId, FALSE, {}) = <<>>
       THEN /\ pc' = [pc EXCEPT ![p] = "done"]
            /\ UNCHANGED local
       ELSE /\ pc' = [pc EXCEPT ![p] = "loop"]
            /\ local' = [local EXCEPT ![p] = [stakeId |-> stakeId, snap |-> DB]]
    /\ UNCHANGED <<placementVars, ledgerVars, job_runs, today, pays, ret>>

\* What the statements of a transaction that read snap and computed out do to the
\* committed store cur: increments add to the balance now stored, inserts add
\* rows, and the updates by id overwrite the rows they name.
ApplyWrites(cur, snap, out) ==
    [cur EXCEPT
        !.wallets = [u \in DOMAIN cur.wallets |->
                        cur.wallets[u] + (out.wallets[u] - snap.wallets[u])],
        !.transactions =
            [k \in DOMAIN cur.transactions \cup DOMAIN out.transactions |->
                (IF k \in DOMAIN cur.transactions THEN cur.transactions[k] ELSE 0)
                + (IF k \in DOMAIN out.transactions THEN out.transactions[k] ELSE 0)
                - (IF k \in DOMAIN snap.transactions THEN snap.transactions[k] ELSE 0)],
        !.stake_rewards =
            [i \in DOMAIN cur.stake_rewards |->
                IF i \in DOMAIN snap.stake_rewards
                   /\ out.stake_rewards[i] # snap.stake_rewards[i]
                THEN out.stake_rewards[i] ELSE cur.stake_rewards[i]],
        !.stakes =
            [i \in DOMAIN cur.stakes |->
                IF out.stakes[i] # snap.stakes[i] THEN out.stakes[i] ELSE cur.stakes[i]]]

\* creditPendingRewards from its loop to the commit, on the rewards and the stake
\* row it read.
CreditLoop(p) ==
    LET stakeId == local[p].stakeId
        snap == local[p].snap
        pendingRewards == PendingRewards(snap, stakeId, FALSE, {})
        stake == snap.stakes[stakeId]
        maxRewards == (stake.amount \div 100) * stake.max_reward_limit
        res == CreditResult(CreditWalk(DB, [db |-> snap, pays |-> <<>>,
                                            currentTotalRewards |->
                                                stake.total_rewards_earned,
                                            totalCredited |-> 0],
                                       pendingRewards, stake, maxRewards, today),
                            stakeId, maxRewards, Len(pendingRewards))
    IN  /\ pc[p] = "loop"
        /\ Commit(ApplyWrites(DB, snap, res.db))
        /\ pays' = res.pays
        /\ ret' = [op |-> "creditPendingRewards", stakeId |-> stakeId, result |-> res.ret]
        /\ pc' = [pc EXCEPT ![p] = "done"]
        /\ UNCHANGED <<placementVars, job_runs, today, local>>

NextCreditRace ==
    \/ \E stakeId \in DOMAIN stakes : CalculateDailyReward(stakeId)
    \/ \E p \in Procs, stakeId \in DOMAIN stakes : CreditSelect(p, stakeId)
    \/ \E p \in Procs : CreditLoop(p)
    \/ NextDay

SpecCreditRace == InitCreditRace /\ [][NextCreditRace]_vars

\* The payments booked for a reward: the staker's credit and the pass-up rows.
BookedFor(txs, id) ==
    SumTx(txs, {k \in DOMAIN txs : k[3] = id /\ k[1] \in {"stake_reward", "power_passup"}})

\* C35: each pending reward is credited at most once under every interleaving of
\* concurrent creditPendingRewards calls for its stake: once it is credited, no
\* wallet is paid for it again, and total_rewards_earned grows by the amounts of
\* the rewards a call credits.
C35_CreditedOnce ==
    [][/\ \A id \in DOMAIN stake_rewards :
             stake_rewards[id].status = "credited"
                 => BookedFor(transactions', id) = BookedFor(transactions, id)
       /\ \A i \in DOMAIN stakes :
             stakes'[i].total_rewards_earned - stakes[i].total_rewards_earned
                 = SumTx([id \in DOMAIN stake_rewards' |-> stake_rewards'[id].total_reward],
                         {id \in DOMAIN stake_rewards :
                             /\ stake_rewards[id].stake_id = i
                             /\ stake_rewards[id].status # "credited"
                             /\ stake_rewards'[id].status = "credited"})]_vars

\* C36: the participant whose stake or reward triggers a distribution is never
\* among its recipients: Catalyst does not pay the staker on its own stake and
\* Power Pass-Up does not pay the staker on its own core reward, whatever the
\* sponsor data are (a self-sponsored root, a sponsor cycle).
C36_OriginNeverPaid ==
    /\ ret.op = "createStake" /\ ret.status = 200
          => \A i \in DOMAIN pays :
                pays[i].type = "catalyst_bonus" => pays[i].to # stakes[ret.stakeId].user_id
    /\ ret.op = "distributePowerPassUp"
          => \A i \in DOMAIN pays :
                pays[i].type = "power_passup" => pays[i].to # ret.originUserId

(***************************************************************************)
(* Overlapping registrations                                               *)
(***************************************************************************)

\* After the admin seed, with two requests about to register.
InitRegisterRace ==
    /\ users = {1}
    /\ is_verified = [u \in {1} |-> TRUE]
    /\ genealogy = [u \in {1} |-> [parent_id |-> NULL, sponsor_id |-> NULL,
                                   position |-> "none"]]
    /\ ret = [op |-> "init"]
    /\ NoLedger /\ NoJobs
    /\ pc = [p \in Procs |-> "idle"]
    /\ local = [p \in Procs |-> [sponsorUser |-> NULL, parentId |-> NULL,
                                 position |-> "none"]]

\* register up to the position search: the sponsor is resolved and the slot is read
\* from the genealogy table, outside any transaction.
RegisterSearch(p, referrer) ==
    LET sponsorUser == ResolveSponsor(users, is_verified, referrer)
        slot == RegisterSlot(genealogy, is_verified, sponsorUser)
    IN  /\ pc[p] = "idle"
        /\ Cardinality(users) + Cardinality({q \in Procs : pc[q] = "insert"}) < MaxUsers
        /\ pc' = [pc EXCEPT ![p] = "insert"]
        /\ local' = [local EXCEPT ![p] = [sponsorUser |-> sponsorUser,
                                         parentId |-> slot.parentId,
                                         position |-> slot.position]]
        /\ UNCHANGED <<placementVars, ledgerVars, job_runs, today, pays, ret>>

\* register from its transaction on: the user row and the genealogy row with the
\* slot found by the search are inserted.
RegisterInsert(p) ==
    LET userId == Cardinality(users) + 1
        sponsorUser == local[p].sponsorUser
        row == [parent_id |-> local[p].parentId,
                sponsor_id |-> IF sponsorUser # NULL THEN sponsorUser ELSE userId,
                position |-> local[p].position]
    IN  /\ pc[p] = "insert"
        /\ users' = users \cup {userId}
        /\ is_verified' = [u \in users \cup {userId} |->
                              IF u = userId THEN TRUE ELSE is_verified[u]]
        /\ genealogy' = [u \in users \cup {userId} |->
                              IF u = userId THEN row ELSE genealogy[u]]
        /\ ret' = [op |-> "register", userId |-> userId,
                   parentId |-> local[p].parentId, position |-> local[p].position]
        /\ pc' = [pc EXCEPT ![p] = "idle"]
        /\ UNCHANGED <<ledgerVars, job_runs, today, pays, local>>

NextRegisterRace ==
    \/ \E p \in Procs, referrer \in users \cup {NULL} : RegisterSearch(p, referrer)
    \/ \E p \in Procs : RegisterInsert(p)

SpecRegisterRace == InitRegisterRace /\ [][NextRegisterRace]_vars

\* C37: two registrations that overlap in time never end up in the same
\* (parent_id, position) slot, whether they name the same sponsor or not: no two
\* placed participants share a parent and a side.
C37_SlotsDistinct ==
    \A u, v \in users :
        /\ u # v
        /\ genealogy[u].parent_id # NULL
        /\ genealogy[u].parent_id = genealogy[v].parent_id
        => genealogy[u].position # genealogy[v].position

(***************************************************************************)
(* Rebuilding the team volumes                                             *)
(***************************************************************************)

RECURSIVE EnsureVolumeRows(_, _)
\* rebuildTeamVolumes, step 2: a volume row for every participant of the genealogy.
EnsureVolumeRows(d, ids) ==
    IF ids = {} THEN d
    ELSE EnsureVolumeRows(ensureVolumeRow(d, SetMin(ids)), ids \ {SetMin(ids)})

RECURSIVE ReplayStakes(_, _)
\* rebuildTeamVolumes, step 5: every active stake, in id order, is propagated to
\* the uplines of its holder.
ReplayStakes(d, i) ==
    IF i > Len(d.stakes) THEN d
    ELSE ReplayStakes(IF d.stakes[i].status = "active"
                      THEN addVolumeToUplines(d, d.stakes[i].user_id, d.stakes[i].amount)
                      ELSE d,
                      i + 1)

\* rebuildTeamVolumes(): rows ensured, every row set to zero, active stakes replayed.
rebuildTeamVolumes(d) ==
    LET ids == (DOMAIN d.genealogy
                  \cup {d.genealogy[u].parent_id : u \in DOMAIN d.genealogy}) \ {NULL}
        d1 == EnsureVolumeRows(d, ids)
        d2 == [d1 EXCEPT !.team_volumes =
                  [u \in DOMAIN d1.team_volumes |-> NewVolumeRow]]
    IN  ReplayStakes(d2, 1)

\* node scripts/rebuild-team-volumes.js (also reset-daily.js --rebuild-volumes)
RebuildTeamVolumes ==
    /\ ~(\E s \in 1..Len(stakes) : AddVolumeLoops(genealogy, stakes[s].user_id))
    /\ Commit(rebuildTeamVolumes(DB))
    /\ pays' = <<>>
    /\ ret' = [op |-> "rebuildTeamVolumes"]
    /\ UNCHANGED <<placementVars, job_runs, today, procVars>>

\* Four registered participants (1 the root, 2 and 3 its placement children, 4 below
\* 2) with USD 1000 each and nothing staked yet.
InitRebuild ==
    /\ users = 1..4
    /\ is_verified = [u \in 1..4 |-> TRUE]
    /\ genealogy = IncentiveGenealogy
    /\ stakes = <<>>
    /\ stake_rewards = <<>>
    /\ wallets = [u \in 1..4 |-> Usd(1000)]
    /\ transactions = <<>>
    /\ user_ranks = [u \in 1..4 |-> 0]
    /\ team_volumes = <<>>
    /\ team_cycles = <<>>
    /\ deposits = <<>>
    /\ NoJobs
    /\ ret = [op |-> "init"]
    /\ NoProcs

NextRebuild ==
    \/ \E userId \in users, amount \in LegStakeAmounts : CreateStake(userId, amount)
    \/ \E userId \in users : ProcessUserCycles(userId)
    \/ RebuildTeamVolumes
    \/ NextDay

SpecRebuild == InitRebuild /\ [][NextRebuild]_vars

\* The cycles ever paid to a participant, and the stake volume ever added on a leg
\* of it.
RECURSIVE CyclesPaidTo(_, _)
CyclesPaidTo(userId, upTo) ==
    IF upTo = 0 THEN 0
    ELSE (IF team_cycles[upTo].user_id = userId THEN team_cycles[upTo].cycles ELSE 0)
         + CyclesPaidTo(userId, upTo - 1)

LegAdded(userId, side) ==
    StakeTotal({i \in DOMAIN stakes : InSubtreeOn(userId, side, stakes[i].user_id)},
               Len(stakes))

resetDaily(d, jr, cleanRewards, resetSynergy, rebuildVolumes, todayStr) ==
    LET d1 == IF rebuildVolumes THEN rebuildTeamVolumes(d) ELSE d
        d2 == IF cleanRewards
              THEN [d1 EXCEPT !.stake_rewards =
                       [i \in {x \in DOMAIN d1.stake_rewards :
                                  d1.stake_rewards[x].reward_date # todayStr}
                           |-> d1.stake_rewards[i]]]
              ELSE d1
        d3 == IF resetSynergy
              THEN [d2 EXCEPT !.transactions =
                       [k \in {x \in DOMAIN d2.transactions :
                                  ~(x[1] = "synergy_flow" /\ x[4] = todayStr)}
                           |-> d2.transactions[k]]]
              ELSE d2
    IN  [db |-> d3,
         job_runs |-> {r \in jr :
                          /\ ~(r.job_name = "core_harvest" /\ r.run_date = todayStr)
                          /\ ~(resetSynergy /\ r.job_name = "synergy_flow"
                                 /\ r.run_date = todayStr)}]

\* Resets are explored while no stake has earned more than this many daily core
\* rewards.
MaxResets == 1

\* node scripts/reset-daily.js with its flags (--reset-ranks touches only the job
\* rows of rank_promote and of core_harvest).
ResetDaily(cleanRewards, resetSynergy, resetRanks, rebuildVolumes) ==
    LET res == resetDaily(DB, job_runs, cleanRewards, resetSynergy, rebuildVolumes, today)
    IN  /\ cleanRewards \/ resetSynergy \/ resetRanks \/ rebuildVolumes
        /\ \A i \in DOMAIN stakes :
               stakes[i].total_rewards_earned
                  <= MaxResets * ((stakes[i].amount \div 10000) * stakes[i].daily_roi_rate)
        /\ Commit(res.db)
        /\ job_runs' = res.job_runs
        /\ pays' = <<>>
        /\ ret' = [op |-> "resetDaily", cleanRewards |-> cleanRewards]
        /\ UNCHANGED <<placementVars, today, procVars>>

NextReset ==
    \/ \E jobName \in Jobs, viaScript \in BOOLEAN : RunDailyBatch(jobName, viaScript)
    \/ \E stakeId \in DOMAIN stakes : CreditPendingRewards(stakeId, FALSE, {})
    \/ \E cleanRewards, resetSynergy, resetRanks, rebuildVolumes \in BOOLEAN :
           ResetDaily(cleanRewards, resetSynergy, resetRanks, rebuildVolumes)
    \/ AdminSetUserRank(3, 25)
    \/ NextDay

SpecReset == InitBatch /\ [][NextReset]_vars

\* What the staker was credited for the reward of a (stake, date).
StakerCredited(txs, id) ==
    SumTx(txs, {k \in DOMAIN txs : k[1] = "stake_reward" /\ k[3] = id})

\* C39: for each (stake, date) the staker's wallet is credited at most once, also
\* when the reset is run after the reward of the day was credited and the batch
\* and the credit are run again for that date: once something was credited for a
\* (stake, date), no step credits the staker for it again.
C39_CreditedOncePerDate ==
    [][\A stakeId \in DOMAIN stakes, date \in 0..MaxDay :
          StakerCredited(transactions, RewardId(stakeId, date)) > 0
          => StakerCredited(transactions', RewardId(stakeId, date))
                = StakerCredited(transactions, RewardId(stakeId, date))]_vars

(***************************************************************************)
(* Deposits: processor callbacks and admin requeries                       *)
(***************************************************************************)

\* NowPaymentService.processDepositCallback: the status it derives from the
\* payment_status of the processor.
processDepositCallback(payment_status) ==
    IF payment_status \in {"finished", "confirmed"} THEN "completed"
    ELSE IF payment_status \in {"failed", "expired"} THEN "failed"
    ELSE IF payment_status = "partially_paid" THEN "partially_paid"
    ELSE "pending"

\* mapDepositStatus of the admin controller
mapDepositStatus(paymentStatus) ==
    IF paymentStatus \in {"finished", "confirmed"} THEN "completed"
    ELSE IF paymentStatus \in {"failed", "expired"} THEN "failed"
    ELSE IF paymentStatus = "partially_paid" THEN "partially_paid"
    ELSE "pending"

\* handleDepositCallback(req): the IPN of the processor for the deposit whose
\* reference is order_id, carrying payment_status and price_amount (0: absent).
\* Every branch that finds the row writes the merged metadata (payment_id).
handleDepositCallback(d, sigOk, orderId, payment_status, price_amount) ==
    IF ~sigOk THEN [db |-> d, status |-> 400]
    ELSE IF orderId \notin DOMAIN d.deposits THEN [db |-> d, status |-> 404]
    ELSE LET transaction == d.deposits[orderId]
             status == processDepositCallback(payment_status)
             creditAmount == IF price_amount # 0 THEN price_amount ELSE transaction.amount
             noted == [d EXCEPT !.deposits[orderId].payment_id = TRUE]
         IN  IF status \in {"completed", "partially_paid"}
                /\ transaction.status # "completed"
             THEN IF transaction.user_id \notin DOMAIN d.wallets
                  THEN [db |-> d, status |-> 500]
                  ELSE IF creditAmount > 0
                  THEN [db |-> [noted EXCEPT
                                   !.deposits[orderId].status = "completed",
                                   !.wallets[transaction.user_id] = @ + creditAmount],
                        status |-> 200]
                  ELSE [db |-> [noted EXCEPT !.deposits[orderId].status = "failed"],
                        status |-> 200]
             ELSE IF status = "failed"
             THEN [db |-> [noted EXCEPT !.deposits[orderId].status = "failed"],
                   status |-> 200]
             ELSE IF transaction.status = "completed"
             THEN [db |-> noted, status |-> 200]
             ELSE [db |-> [noted EXCEPT !.deposits[orderId].status = status],
                   status |-> 200]

\* requeryDepositStatus(req): payment_status and price_amount are what the
\* processor answers for the payment_id of the row.
requeryDepositStatus(d, transactionId, payment_status, price_amount) ==
    IF transactionId \notin DOMAIN d.deposits THEN [db |-> d, status |-> 404]
    ELSE IF ~d.deposits[transactionId].payment_id THEN [db |-> d, status |-> 400]
    ELSE LET transaction == d.deposits[transactionId]
             desiredStatus == mapDepositStatus(payment_status)
             creditAmount == IF price_amount # 0 THEN price_amount ELSE transaction.amount
         IN  IF desiredStatus \in {"completed", "partially_paid"}
                /\ transaction.status # "completed"
             THEN IF creditAmount > 0 /\ transaction.user_id \notin DOMAIN d.wallets
                  THEN [db |-> d, status |-> 500]
                  ELSE [db |-> [d EXCEPT
                                   !.deposits[transactionId].status = "completed",
                                   !.wallets[transaction.user_id] = @ + creditAmount],
                        status |-> 200]
             ELSE IF transaction.status = "completed" /\ desiredStatus = "completed"
             THEN [db |-> d, status |-> 200]
             ELSE [db |-> [d EXCEPT !.deposits[transactionId].status = desiredStatus],
                   status |-> 200]

\* The deposit of the scenario, what the processor reports, and the price_amount
\* its messages carry (0: none).
DepositAmount == Usd(100)

PaymentStatuses == {"waiting", "finished", "failed", "expired", "partially_paid"}

PriceAmounts == {0, DepositAmount}

\* Requests are explored while no wallet holds more than this many deposits.
MaxDepositCredits == 2

\* Two registered participants with an empty wallet and one pending deposit of
\* USD 100 each, created with or without a payment_id in its metadata.
InitDeposit ==
    /\ users = 1..2
    /\ is_verified = [u \in 1..2 |-> TRUE]
    /\ genealogy = <<[parent_id |-> NULL, sponsor_id |-> NULL, position |-> "none"],
                     [parent_id |-> 1, sponsor_id |-> 1, position |-> "left"]>>
    /\ stakes = <<>>
    /\ stake_rewards = <<>>
    /\ wallets = <<0, 0>>
    /\ transactions = <<>>
    /\ user_ranks = <<0, 0>>
    /\ team_volumes = <<>>
    /\ team_cycles = <<>>
    /\ \E pid \in [1..2 -> BOOLEAN] :
           deposits = [i \in 1..2 |-> [user_id |-> i, amount |-> DepositAmount,
                                       status |-> "pending", payment_id |-> pid[i]]]
    /\ NoJobs
    /\ ret = [op |-> "init"]
    /\ NoProcs

\* POST of the processor's callback
HandleDepositCallback(sigOk, orderId, payment_status, price_amount) ==
    LET res == handleDepositCallback(DB, sigOk, orderId, payment_status, price_amount)
    IN  /\ \A u \in DOMAIN wallets : wallets[u] < MaxDepositCredits * DepositAmount
        /\ Commit(res.db)
        /\ pays' = <<>>
        /\ ret' = [op |-> "handleDepositCallback", transactionId |-> orderId,
                   status |-> res.status]
        /\ UNCHANGED <<placementVars, job_runs, today, procVars>>

\* The admin's requery of a deposit
RequeryDepositStatus(transactionId, payment_status, price_amount) ==
    LET res == requeryDepositStatus(DB, transactionId, payment_status, price_amount)
    IN  /\ \A u \in DOMAIN wallets : wallets[u] < MaxDepositCredits * DepositAmount
        /\ Commit(res.db)
        /\ pays' = <<>>
        /\ ret' = [op |-> "requeryDepositStatus", transactionId |-> transactionId,
                   status |-> res.status]
        /\ UNCHANGED <<placementVars, job_runs, today, procVars>>

NextDeposit ==
    \/ \E sigOk \in BOOLEAN, orderId \in 1..3, payment_status \in PaymentStatuses,
          price_amount \in PriceAmounts :
           HandleDepositCallback(sigOk, orderId, payment_status, price_amount)
    \/ \E transactionId \in 1..3, payment_status \in PaymentStatuses,
          price_amount \in PriceAmounts :
           RequeryDepositStatus(transactionId, payment_status, price_amount)

SpecDeposit == InitDeposit /\ [][NextDeposit]_vars

\* C40: a deposit credits the wallet of its user at most once, whatever callbacks
\* and requeries arrive for it and in whatever order, a status other than
\* completed after the credit included: the wallet never holds more than the
\* amount of the deposit.
C40_DepositCreditedOnce ==
    \A i \in DOMAIN deposits : wallets[deposits[i].user_id] <= deposits[i].amount

====
